---- MODULE Spec2Model ----
(***************************************************************************)
(* A model of synology-guru's learning-and-alerting engine:                *)
(*   - the orchestrator (src/orchestrator/orchestrator.py) running the     *)
(*     registered agents as concurrent tasks and aggregating their results *)
(*   - the agents' check()/run() protocol (src/agents/base.py and the six  *)
(*     domain agents)                                                      *)
(*   - the persistent memory store (src/memory/store.py, models.py) with   *)
(*     its four files, and the learning agent's alert suppression          *)
(*     (src/agents/learning.py).                                           *)
(*                                                                         *)
(* Python's None is modelled by the empty sequence and a present value v   *)
(* by <<v>> (an option).  Feedback.details and Feedback.timestamp play no  *)
(* part in any modelled decision and are left out of the Feedback record.  *)
(***************************************************************************)
EXTENDS Integers, Sequences, FiniteSets, TLC

VARIABLES
    \* ---- orchestrator and agents (one health check) ----
    agents,        \* SynologyGuru.agents: the registered agents' names, in order
    phase,         \* where check_health is: idle, running, gathered, reported
    pc,            \* per agent task: ready, api1, api2, done
    feedback_buf,  \* per agent: BaseAgent._feedback
    task_result,   \* per agent task: what run_agent returned (<<>> while running)
    results,       \* what run_all_agents returned
    report,        \* what aggregate_feedback returned
    min_priority,  \* the min_priority aggregate_feedback was called with
    \* ---- the memory store and the process that holds it ----
    proc,          \* up: a MemoryStore is constructed; down: no process;
                   \* failed: MemoryStore.__init__ raised
    now,           \* datetime.now(), in days
    observations,  \* MemoryStore._observations
    baselines,     \* MemoryStore._baselines, a dict in insertion order
    patterns,      \* MemoryStore._patterns, a dict in insertion order
    user_feedback, \* MemoryStore._feedback
    disk,          \* the four files of the data directory
    learner_feedback, \* the learning agent's BaseAgent._feedback
    sensitivity,   \* the learning agent's LearningAgent._sensitivity, a dict
    \* ---- history (not program state) ----
    store_failed,  \* per agent: a store write raised inside the running check()
    fp_count,      \* receive_user_feedback(false_positive) calls made so far
    pristine,      \* no write has failed and nobody else has touched the files
    recorded,      \* the record_observation calls made so far, with their day
    last           \* what the last step was: the task it finished, or the
                   \* store call it made; None for any other step

RunVars == <<agents, phase, pc, feedback_buf, task_result, results, report,
             min_priority, store_failed>>

StoreVars == <<proc, now, observations, baselines, patterns, user_feedback,
               disk, learner_feedback, sensitivity, fp_count, pristine,
               recorded>>

vars == <<agents, phase, pc, feedback_buf, task_result, results, report,
          min_priority, store_failed, proc, now, observations, baselines,
          patterns, user_feedback, disk, learner_feedback, sensitivity,
          fp_count, pristine, recorded, last>>

(***************************************************************************)
(* Bounds of the model.                                                    *)
(***************************************************************************)
NumAgents == 2       \* agents registered with the orchestrator
MaxFb == 1           \* feedback items per AgentResult handed to aggregate_feedback
MaxFeedback == 3     \* entries of user feedback in the store
MaxOccurrences == 4  \* occurrences a pattern may reach
MaxAlerts == 1       \* items in the learning agent's feedback buffer
MaxObs == 2          \* observations in the store
MaxSamples == 3      \* samples a baseline may reach
TickDays == 15       \* days the clock advances by
MaxNow == 45         \* the last day of the clock
MaxTuning == 5       \* entries of user feedback while tuning
MaxSeries == 10      \* observations of one metric's series
MaxKeyObs == 3       \* observations over several agents and metrics
MaxLearning == 3     \* entries of user feedback beside patterns put by hand
MaxKept == 3         \* observations recorded while the clock runs
MaxTrend == 3        \* observations a trend is asked over
MaxChecks == 1       \* checks of the storage agent
MaxRatings == 4      \* entries of user feedback on the usage alerts
MaxLeft == 2         \* items a raising check() may leave in the buffer
MaxLearnt == 20      \* observations an agent learns its thresholds from
MaxRated == 2        \* entries of user feedback behind a threshold

(***************************************************************************)
(* Priority (IntEnum) and Feedback.                                        *)
(***************************************************************************)
CRITICAL == 0
HIGH == 1
MEDIUM == 2
LOW == 3
INFO == 4
Priorities == CRITICAL..INFO

None == <<>>
Some(v) == <<v>>

Feedback(p, c, m) == [priority |-> p, category |-> c, message |-> m]

AgentResult(n, fb, e) == [agent_name |-> n, feedback |-> fb, error |-> e]

(***************************************************************************)
(* The agents.  The six domain agents are the ones create_orchestrator     *)
(* registers; "fake" is a plain BaseAgent subclass whose check() either    *)
(* raises or adds its preset items and returns a copy of the buffer.       *)
(***************************************************************************)
DomainAgents == {"backup", "security", "logs", "updates", "storage", "disks"}
FakeName == "fake"
AgentNames == DomainAgents \cup {FakeName}

\* Exception messages: str(e) of what an API call, a store write or a
\* check() may raise.  The empty string is str(asyncio.TimeoutError()).
ApiErrors == {"refused"}
StoreErrors == {"No space left on device"}
CheckErrors == {"", "Agent exploded"}

\* Priority of the item a domain agent's except-branch adds.
ErrorPriority(name) ==
    IF name \in {"storage", "disks", "backup"} THEN HIGH ELSE MEDIUM

\* The message prefix of that item; try_no tells the security agent's two
\* try blocks apart.
ErrorPrefix(name, try_no) ==
    CASE name = "storage" -> "Could not retrieve storage information: "
      [] name = "disks" -> "Could not retrieve disk information: "
      [] name = "backup" -> "Failed to retrieve backup information: "
      [] name = "logs" -> "Could not retrieve system logs: "
      [] name = "updates" -> "Could not check for updates: "
      [] name = "security" /\ try_no = 1 -> "Could not retrieve security scan: "
      [] OTHER -> "Could not retrieve connection logs: "

\* BaseAgent.add_feedback: append one item whose category is the agent's name.
add_feedback(buf, name, p, m) == Append(buf, Feedback(p, name, m))

\* BaseAgent.get_feedback: return a copy and clear the internal list.
get_feedback(buf) == [value |-> buf, buf |-> <<>>]


(***************************************************************************)
(* One pass of a domain agent's analysis, as far as the orchestrator can   *)
(* tell: the items it adds (by priority, in order) and whether a store     *)
(* write (observe -> record_observation -> write_text) raised after them.  *)
(***************************************************************************)
SeqsUpTo(S, n) == UNION {[1..k -> S] : k \in 0..n}

\* The priorities of the items one pass may add: none, one alert, one
\* informational item, or both.
EmitChoices == {<<>>, <<HIGH>>, <<INFO>>, <<HIGH, INFO>>}

AnalysisRuns ==
    {[items |-> it, fail |-> f] :
        it \in EmitChoices,
        f \in {None} \cup {Some(e) : e \in StoreErrors}}

NoAnalysis == [items |-> <<>>, fail |-> None]

RECURSIVE AddItems(_, _, _, _)
AddItems(buf, name, prios, m) ==
    IF prios = <<>> THEN buf
    ELSE AddItems(add_feedback(buf, name, Head(prios), m), name, Tail(prios), m)

\* One try/except block of a domain agent's check():
\*     try:    info = await self.client.get_...(); await self._analyze_...(info)
\*     except Exception as e:  self.add_feedback(<priority>, f"<prefix>{e}")
\* api is None when the API call returned and Some(str(e)) when it raised.
TryBlock(buf, name, try_no, api, an) ==
    IF api # None
    THEN add_feedback(buf, name, ErrorPriority(name),
                      ErrorPrefix(name, try_no) \o api[1])
    ELSE LET analysed == AddItems(buf, name, an.items, "finding")
         IN IF an.fail # None
            THEN add_feedback(analysed, name, ErrorPriority(name),
                              ErrorPrefix(name, try_no) \o an.fail[1])
            ELSE analysed

\* The last statement of every domain agent's check(): return self.get_feedback()
DomainCheckEnd(buf) == get_feedback(buf)

\* The last statement of the fake agent's check(): return self._feedback.copy()
FakeCheckEnd(buf) == [value |-> buf, buf |-> buf]

\* BaseAgent.run: await self.check() (its value is dropped); return self.get_feedback()
run(checked) == get_feedback(checked.buf)

\* SynologyGuru.run_agent, when agent.run() returned.
run_agent_ok(name, ran) == AgentResult(name, ran.value, None)

\* SynologyGuru.run_agent, when agent.run() raised e: except Exception as e.
run_agent_raised(name, e) == AgentResult(name, <<>>, Some(e))

(***************************************************************************)
(* aggregate_feedback.                                                     *)
(***************************************************************************)
\* Python's order on the category strings that occur (agent names).
NameOrder == <<"backup", "disks", "fake", "logs", "security", "storage", "updates">>
Rank(c) == CHOOSE k \in 1..Len(NameOrder) : NameOrder[k] = c

\* A sort on the priority alone.
KeyLeqPriorityOnly(a, b) == a.priority <= b.priority

\* The sort key (f.priority, f.category), compared as Python compares tuples.
KeyLeq(a, b) ==
    \/ a.priority < b.priority
    \/ a.priority = b.priority /\ Rank(a.category) <= Rank(b.category)

\* `if result.error:` is false for None and for the empty string.
Truthy(e) == e # None /\ e[1] # ""

ErrorFeedback(r) ==
    IF Truthy(r.error)
    THEN <<Feedback(HIGH, r.agent_name, "Agent error: " \o r.error[1])>>
    ELSE <<>>

RECURSIVE Flatten(_)
Flatten(rs) ==
    IF rs = <<>> THEN <<>>
    ELSE ErrorFeedback(Head(rs)) \o Head(rs).feedback \o Flatten(Tail(rs))

\* A filter that also drops the items of priority min_priority itself.
KeepBelow(f, minp) == f.priority < minp

\* A filter that drops nothing.
KeepAll(f, minp) == TRUE

\* filtered = [f for f in all_feedback if f.priority <= min_priority]
KeepPriority(f, minp) == f.priority <= minp

Filtered(all, minp) == SelectSeq(all, LAMBDA f : KeepPriority(f, minp))

\* sorted(): stable, so x goes after every element whose key is <= its own.
Insert(s, x) ==
    LET k == Cardinality({j \in 1..Len(s) : KeyLeq(s[j], x)})
    IN SubSeq(s, 1, k) \o <<x>> \o SubSeq(s, k + 1, Len(s))

RECURSIVE SortedFrom(_, _)
SortedFrom(acc, rest) ==
    IF rest = <<>> THEN acc ELSE SortedFrom(Insert(acc, Head(rest)), Tail(rest))

sorted(s) == SortedFrom(<<>>, s)

aggregate_feedback(rs, minp) == sorted(Filtered(Flatten(rs), minp))

\* render_report: the items it prints, group by group in the order of the
\* priorities; an info item is passed over unless show_info.
render_report(feedback, show_info) ==
    LET shown == SelectSeq(feedback, LAMBDA f : ~(f.priority = INFO /\ ~show_info))
        group(p) == SelectSeq(shown, LAMBDA f : f.priority = p)
    IN group(CRITICAL) \o group(HIGH) \o group(MEDIUM) \o group(LOW) \o group(INFO)

(***************************************************************************)
(* The health check: check_health -> run_all_agents -> aggregate_feedback. *)
(* A task's step runs from one suspension point (an awaited API call) to   *)
(* the next, as asyncio schedules it.                                      *)
(***************************************************************************)
AgentIds == 1..NumAgents

Fresh(v) == [i \in AgentIds |-> v]

\* A gather that returns with the first finished task.
GatherReadyAny == \E i \in AgentIds : pc[i] = "done"

\* asyncio.gather(*tasks) returns once every task has finished.
GatherReady == \A i \in AgentIds : pc[i] = "done"

\* check_health starts: run_all_agents creates one run_agent task per agent.
RunAllAgents ==
    /\ phase \in {"idle", "reported"}
    /\ phase' = "running"
    /\ pc' = Fresh("ready")
    /\ task_result' = Fresh(None)
    /\ store_failed' = Fresh(FALSE)
    /\ results' = <<>>
    /\ report' = <<>>
    /\ last' = None
    /\ UNCHANGED <<agents, feedback_buf, min_priority>>
    /\ UNCHANGED StoreVars

\* The task finished: run_agent returned res and left the agent's buffer buf.
\* emitted is the buffer as check() left it before its return statement,
\* before the buffer as the last try block found it, api what the last API
\* call raised (None when it returned or none was made), raised what check()
\* raised.
Finish(i, res, buf, before, api, emitted, raised, failed) ==
    /\ pc' = [pc EXCEPT ![i] = "done"]
    /\ task_result' = [task_result EXCEPT ![i] = Some(res)]
    /\ feedback_buf' = [feedback_buf EXCEPT ![i] = buf]
    /\ store_failed' = [store_failed EXCEPT ![i] = FALSE]
    /\ last' = Some([agent |-> i, before |-> before, api |-> api,
                     emitted |-> emitted, raised |-> raised,
                     store_failed |-> store_failed[i] \/ failed])

\* A domain agent's task runs up to its first API call and suspends there.
DomainStart(i) ==
    /\ phase = "running" /\ pc[i] = "ready"
    /\ agents[i] \in DomainAgents
    /\ pc' = [pc EXCEPT ![i] = "api1"]
    /\ last' = None
    /\ UNCHANGED <<agents, phase, feedback_buf, task_result, results, report,
                   min_priority, store_failed>>
    /\ UNCHANGED StoreVars

\* The fake agent's check() never suspends: it raises, and run_agent catches it,
FakeRaises(i) ==
    /\ phase = "running" /\ pc[i] = "ready"
    /\ agents[i] = FakeName
    /\ \E e \in CheckErrors :
          Finish(i, run_agent_raised(agents[i], e), feedback_buf[i],
                 feedback_buf[i], None, <<>>, Some(e), FALSE)
    /\ UNCHANGED <<agents, phase, results, report, min_priority>>
    /\ UNCHANGED StoreVars

\* or it adds its preset items and returns.
FakeReturns(i) ==
    /\ phase = "running" /\ pc[i] = "ready"
    /\ agents[i] = FakeName
    /\ \E preset \in EmitChoices :
          LET buf == AddItems(feedback_buf[i], agents[i], preset, "preset")
              ran == run(FakeCheckEnd(buf))
          IN Finish(i, run_agent_ok(agents[i], ran), ran.buf, feedback_buf[i],
                    None, buf, None, FALSE)
    /\ UNCHANGED <<agents, phase, results, report, min_priority>>
    /\ UNCHANGED StoreVars

\* or an item of its preset list is no Feedback: the loop adds the items before
\* it and raises AttributeError on fb.priority; run() does not reach
\* get_feedback(), and run_agent catches the exception.
LateErrors == {"'str' object has no attribute 'priority'"}

FakeRaisesLate(i) ==
    /\ phase = "running" /\ pc[i] = "ready"
    /\ agents[i] = FakeName
    /\ \E preset \in EmitChoices \ {<<>>}, e \in LateErrors :
          Len(feedback_buf[i]) + Len(preset) <= MaxLeft /\
          LET buf == AddItems(feedback_buf[i], agents[i], preset, "preset")
          IN Finish(i, run_agent_raised(agents[i], e), buf, feedback_buf[i],
                    None, buf, Some(e), FALSE)
    /\ UNCHANGED <<agents, phase, results, report, min_priority>>
    /\ UNCHANGED StoreVars

\* UpdatesAgent.check: get_dsm_info() returned; check_updates() is awaited next,
\* inside the same try block.
UpdatesFirstCall(i) ==
    /\ phase = "running" /\ pc[i] = "api1"
    /\ agents[i] = "updates"
    /\ pc' = [pc EXCEPT ![i] = "api2"]
    /\ last' = None
    /\ UNCHANGED <<agents, phase, feedback_buf, task_result, results, report,
                   min_priority, store_failed>>
    /\ UNCHANGED StoreVars

\* UpdatesAgent.check: get_dsm_info() raised; the except branch runs and
\* check() returns without calling check_updates().
UpdatesFirstCallRaises(i) ==
    /\ phase = "running" /\ pc[i] = "api1"
    /\ agents[i] = "updates"
    /\ \E e \in ApiErrors :
          LET buf == TryBlock(feedback_buf[i], agents[i], 1, Some(e), NoAnalysis)
              ran == run(DomainCheckEnd(buf))
          IN Finish(i, run_agent_ok(agents[i], ran), ran.buf, feedback_buf[i],
                    Some(e), buf, None, FALSE)
    /\ UNCHANGED <<agents, phase, results, report, min_priority>>
    /\ UNCHANGED StoreVars

\* SecurityAgent.check: the first try block (security scan) ends, by its
\* analysis or by its except branch; get_connection_logs() is awaited next.
SecurityFirstTry(i) ==
    /\ phase = "running" /\ pc[i] = "api1"
    /\ agents[i] = "security"
    /\ \E api \in {None} \cup {Some(e) : e \in ApiErrors}, an \in AnalysisRuns :
          /\ api # None => an = NoAnalysis
          /\ feedback_buf' = [feedback_buf EXCEPT
                                ![i] = TryBlock(@, agents[i], 1, api, an)]
          /\ store_failed' = [store_failed EXCEPT ![i] = an.fail # None]
    /\ pc' = [pc EXCEPT ![i] = "api2"]
    /\ last' = None
    /\ UNCHANGED <<agents, phase, task_result, results, report, min_priority>>
    /\ UNCHANGED StoreVars

\* The last (or only) try block of a domain agent's check() ends; check()
\* returns self.get_feedback(), run() returns, run_agent returns.
LastTry(i) ==
    /\ phase = "running"
    /\ agents[i] \in DomainAgents
    /\ pc[i] = IF agents[i] \in {"updates", "security"} THEN "api2" ELSE "api1"
    /\ \E api \in {None} \cup {Some(e) : e \in ApiErrors}, an \in AnalysisRuns :
          /\ api # None => an = NoAnalysis
          /\ LET try_no == IF agents[i] = "security" THEN 2 ELSE 1
                 buf == TryBlock(feedback_buf[i], agents[i], try_no, api, an)
                 ran == run(DomainCheckEnd(buf))
             IN Finish(i, run_agent_ok(agents[i], ran), ran.buf, feedback_buf[i],
                       api, buf, None, an.fail # None)
    /\ UNCHANGED <<agents, phase, results, report, min_priority>>
    /\ UNCHANGED StoreVars

\* run_all_agents returns the finished tasks' results, in the agents' order.
Finished == {j \in AgentIds : task_result[j] # None}

NthFinished(n) ==
    CHOOSE j \in Finished : Cardinality({h \in Finished : h <= j}) = n

Gather ==
    /\ phase = "running"
    /\ GatherReady
    /\ results' = [n \in 1..Cardinality(Finished) |-> task_result[NthFinished(n)][1]]
    /\ phase' = "gathered"
    /\ last' = None
    /\ UNCHANGED <<agents, pc, feedback_buf, task_result, report, min_priority,
                   store_failed>>
    /\ UNCHANGED StoreVars

\* check_health: feedback = self.aggregate_feedback(results), min_priority = LOW.
Aggregate ==
    /\ phase = "gathered"
    /\ min_priority' = LOW
    /\ report' = aggregate_feedback(results, LOW)
    /\ phase' = "reported"
    /\ last' = None
    /\ UNCHANGED <<agents, pc, feedback_buf, task_result, results, store_failed>>
    /\ UNCHANGED StoreVars

(***************************************************************************)
(* The memory store: times and their JSON form.                            *)
(* A datetime is Instant(t), t in days; the string isoformat() gives for   *)
(* it is IsoString(t); Garbage is a string that is no ISO date.            *)
(***************************************************************************)
Instant(t) == [kind |-> "datetime", t |-> t]
IsoString(t) == [kind |-> "str", t |-> t]
Garbage == [kind |-> "str", t |-> -1]

\* Only a datetime has isoformat(); on a str it raises AttributeError.
IsDatetime(v) == v.kind = "datetime"
isoformat(v) == IsoString(v.t)

\* datetime.fromisoformat raises ValueError unless the string is an ISO date.
Parsable(v) == v.kind = "str" /\ v.t >= 0
fromisoformat(v) == Instant(v.t)

RetentionDays == 30

(***************************************************************************)
(* Python dicts keyed by "agent:name", in insertion order: sequences of    *)
(* [k, v] entries.                                                         *)
(***************************************************************************)
Key(agent, name) == agent \o ":" \o name

DictHas(d, k) == \E i \in 1..Len(d) : d[i].k = k

DictGet(d, k) ==
    IF DictHas(d, k)
    THEN Some(d[CHOOSE i \in 1..Len(d) : d[i].k = k].v)
    ELSE None

DictSet(d, k, v) ==
    IF DictHas(d, k)
    THEN [i \in 1..Len(d) |-> IF d[i].k = k THEN [k |-> k, v |-> v] ELSE d[i]]
    ELSE Append(d, [k |-> k, v |-> v])

DictValues(d) == [i \in 1..Len(d) |-> d[i].v]

(***************************************************************************)
(* models.py: to_dict / from_dict.  A JSON object is a record; a JSON      *)
(* object with a missing or an extra key is a record with another DOMAIN.  *)
(* A decoding returns [exc, value]: exc is None, or the exception raised.  *)
(***************************************************************************)
Raised(e) == [exc |-> Some(e), value |-> <<>>]
Value(v) == [exc |-> None, value |-> v]

\* Observation.value is typed Any: a number, or something else (a string).
Number(n) == [type |-> "number", n |-> n]
Text == [type |-> "str", n |-> 0]

\* isinstance(observation.value, (int, float))
IsNumber(v) == v.type = "number"

Observation_to_dict(o) ==
    [agent |-> o.agent, metric |-> o.metric, value |-> o.value,
     timestamp |-> isoformat(o.timestamp), context |-> o.context]

Observation_from_dict(d) ==
    IF ~({"agent", "metric", "value", "timestamp"} \subseteq DOMAIN d)
    THEN Raised("KeyError")
    ELSE IF ~Parsable(d.timestamp) THEN Raised("ValueError")
    ELSE Value([agent |-> d.agent, metric |-> d.metric, value |-> d.value,
                timestamp |-> fromisoformat(d.timestamp),
                context |-> IF "context" \in DOMAIN d THEN d.context ELSE {}])

Baseline_to_dict(b) ==
    [agent |-> b.agent, metric |-> b.metric, mean |-> b.mean,
     std_dev |-> b.std_dev, min_value |-> b.min_value,
     max_value |-> b.max_value, sample_count |-> b.sample_count,
     last_updated |-> isoformat(b.last_updated)]

Baseline_from_dict(d) ==
    IF ~({"agent", "metric", "mean", "std_dev", "min_value", "max_value",
          "sample_count", "last_updated"} \subseteq DOMAIN d)
    THEN Raised("KeyError")
    ELSE IF ~Parsable(d.last_updated) THEN Raised("ValueError")
    ELSE Value([agent |-> d.agent, metric |-> d.metric, mean |-> d.mean,
                std_dev |-> d.std_dev, min_value |-> d.min_value,
                max_value |-> d.max_value, sample_count |-> d.sample_count,
                last_updated |-> fromisoformat(d.last_updated)])

\* last_triggered is an option: None, or Some(datetime) / Some(string).
Pattern_to_dict(p) ==
    [agent |-> p.agent, name |-> p.name, description |-> p.description,
     condition |-> p.condition, action |-> p.action,
     confidence |-> p.confidence, occurrences |-> p.occurrences,
     last_triggered |-> IF p.last_triggered # None
                        THEN Some(isoformat(p.last_triggered[1])) ELSE None,
     created_at |-> isoformat(p.created_at)]

\* The keyword arguments are evaluated in order, so a bad last_triggered is
\* met before created_at is looked at.
Pattern_from_dict(d) ==
    IF ~({"agent", "name", "description", "condition", "action", "confidence"}
           \subseteq DOMAIN d)
    THEN Raised("KeyError")
    ELSE LET has_lt == "last_triggered" \in DOMAIN d /\ d.last_triggered # None
         IN IF has_lt /\ ~Parsable(d.last_triggered[1]) THEN Raised("ValueError")
            ELSE IF "created_at" \notin DOMAIN d THEN Raised("KeyError")
            ELSE IF ~Parsable(d.created_at) THEN Raised("ValueError")
            ELSE Value([agent |-> d.agent, name |-> d.name,
                        description |-> d.description,
                        condition |-> d.condition, action |-> d.action,
                        confidence |-> d.confidence,
                        occurrences |-> IF "occurrences" \in DOMAIN d
                                        THEN d.occurrences ELSE 0,
                        last_triggered |->
                            IF has_lt
                            THEN Some(fromisoformat(d.last_triggered[1]))
                            ELSE None,
                        created_at |-> fromisoformat(d.created_at)])

UserFeedback_to_dict(f) ==
    [agent |-> f.agent, alert_type |-> f.alert_type, feedback |-> f.feedback,
     context |-> f.context, timestamp |-> isoformat(f.timestamp)]

\* There is no UserFeedback.from_dict: _load_feedback calls UserFeedback(**f),
\* which keeps the timestamp as the string it finds, takes datetime.now() for
\* a missing one, and raises TypeError for a missing or an unexpected key.
UserFeedback_from_kwargs(d, t) ==
    IF ~({"agent", "alert_type", "feedback", "context"} \subseteq DOMAIN d)
       \/ ~(DOMAIN d \subseteq {"agent", "alert_type", "feedback", "context",
                                "timestamp"})
    THEN Raised("TypeError")
    ELSE Value([agent |-> d.agent, alert_type |-> d.alert_type,
                feedback |-> d.feedback, context |-> d.context,
                timestamp |-> IF "timestamp" \in DOMAIN d
                              THEN d.timestamp ELSE Instant(t)])

(***************************************************************************)
(* The data directory: four files.  A file is absent, holds a JSON list of *)
(* objects, or holds something else: text that is no JSON (a truncated     *)
(* write among it), a JSON object {"a": 1}, the JSON object {}, or bytes   *)
(* read_text() cannot read (PermissionError).                              *)
(***************************************************************************)
Files == <<"observations", "baselines", "patterns", "feedback">>
FileNames == {Files[i] : i \in 1..Len(Files)}

Absent == [kind |-> "absent", items |-> <<>>]
JsonList(items) == [kind |-> "list", items |-> items]
Malformed == [kind |-> "malformed", items |-> <<>>]
JsonObject == [kind |-> "object", items |-> <<>>]
EmptyObject == [kind |-> "empty_object", items |-> <<>>]
Unreadable == [kind |-> "unreadable", items |-> <<>>]

EmptyDisk == [f \in FileNames |-> Absent]

from_dict(fname, d, t) ==
    CASE fname = "observations" -> Observation_from_dict(d)
      [] fname = "baselines" -> Baseline_from_dict(d)
      [] fname = "patterns" -> Pattern_from_dict(d)
      [] OTHER -> UserFeedback_from_kwargs(d, t)

\* [from_dict(o) for o in data]: the first exception ends the comprehension.
RECURSIVE DecodeAll(_, _, _)
DecodeAll(fname, items, t) ==
    IF items = <<>> THEN Value(<<>>)
    ELSE LET h == from_dict(fname, Head(items), t)
         IN IF h.exc # None THEN h
            ELSE LET r == DecodeAll(fname, Tail(items), t)
                 IN IF r.exc # None THEN r ELSE Value(<<h.value>> \o r.value)

\* {f"{b['agent']}:{b[field]}": from_dict(b) for b in data}
RECURSIVE AsDict(_, _, _)
AsDict(acc, vals, field) ==
    IF vals = <<>> THEN acc
    ELSE AsDict(DictSet(acc, Key(Head(vals).agent, Head(vals)[field]), Head(vals)),
                Tail(vals), field)

Collect(fname, vals) ==
    CASE fname = "baselines" -> AsDict(<<>>, vals, "metric")
      [] fname = "patterns" -> AsDict(<<>>, vals, "name")
      [] OTHER -> vals

\* _load_observations / _load_baselines / _load_patterns / _load_feedback:
\*     if file.exists():
\*         try:    data = json.loads(file.read_text()); self._x = [... for o in data]
\*         except (json.JSONDecodeError, KeyError):  self._x = []
\* Any other exception leaves __init__.
load(fname, file, t) ==
    CASE file.kind = "absent" -> Value(<<>>)
      [] file.kind = "unreadable" -> Raised("PermissionError")
      [] file.kind = "malformed" -> Value(<<>>)
      [] file.kind = "object" -> Raised("TypeError")
      [] file.kind = "empty_object" -> Value(<<>>)
      [] OTHER -> LET r == DecodeAll(fname, file.items, t)
                  IN IF r.exc = Some("KeyError") THEN Value(<<>>)
                     ELSE IF r.exc # None THEN r
                     ELSE Value(Collect(fname, r.value))

\* The store's state: the four caches and the directory.
StoreOf(o, b, p, f, d) ==
    [observations |-> o, baselines |-> b, patterns |-> p, user_feedback |-> f,
     disk |-> d]

\* MemoryStore.__init__ -> _load_all: the four loads in order; exc is the
\* exception that left __init__, if one did.
load_all(d, t) ==
    LET o == load("observations", d["observations"], t)
        b == load("baselines", d["baselines"], t)
        p == load("patterns", d["patterns"], t)
        f == load("feedback", d["feedback"], t)
        first == CASE o.exc # None -> o.exc
                   [] b.exc # None -> b.exc
                   [] p.exc # None -> p.exc
                   [] OTHER -> f.exc
    IN [exc |-> first, s |-> StoreOf(o.value, b.value, p.value, f.value, d)]

(***************************************************************************)
(* Writing.  Path.write_text opens the file for writing, which truncates   *)
(* it, and then writes the text.  A write goes one of these ways:          *)
(*   ok              the text is written                                   *)
(*   raise_unchanged OSError before the file is touched                    *)
(*   raise_partial   OSError after the truncation (disk full)              *)
(*   die_partial     the process ends between truncation and last byte     *)
(*   die_after       the process ends right after the write                *)
(* (a process that ends before it touches the file is Exit).               *)
(***************************************************************************)
WriteWays == {"ok", "raise_unchanged", "raise_partial", "die_partial",
              "die_after"}

WriteStatus(w) ==
    CASE w = "ok" -> "ok"
      [] w \in {"raise_unchanged", "raise_partial"} -> "OSError"
      [] OTHER -> "died"

write_text(old, items, w) ==
    CASE w \in {"ok", "die_after"} -> JsonList(items)
      [] w \in {"raise_partial", "die_partial"} -> Malformed
      [] OTHER -> old

\* An operation's outcome so far: the store, and st = "ok" or how it ended.
Step(s, st) == [s |-> s, st |-> st]

Written(s, fname, items, w) ==
    Step([s EXCEPT !.disk[fname] = write_text(@, items, w)], WriteStatus(w))

\* A save that keeps every observation.
save_observations_unpruned(s, t, w) ==
    Written(s, "observations",
            [i \in 1..Len(s.observations) |-> Observation_to_dict(s.observations[i])],
            w)

\* _save_observations: prune to the last 30 days, then write.
save_observations(s, t, w) ==
    LET kept == SelectSeq(s.observations,
                          LAMBDA o : o.timestamp.t > t - RetentionDays)
    IN Written([s EXCEPT !.observations = kept], "observations",
               [i \in 1..Len(kept) |-> Observation_to_dict(kept[i])], w)

save_baselines(s, w) ==
    Written(s, "baselines",
            [i \in 1..Len(s.baselines) |-> Baseline_to_dict(s.baselines[i].v)], w)

save_patterns(s, w) ==
    Written(s, "patterns",
            [i \in 1..Len(s.patterns) |-> Pattern_to_dict(s.patterns[i].v)], w)

\* _save_feedback: f.to_dict() calls timestamp.isoformat() on every entry,
\* before anything is written.
save_feedback(s, w) ==
    IF \E i \in 1..Len(s.user_feedback) : ~IsDatetime(s.user_feedback[i].timestamp)
    THEN Step(s, "AttributeError")
    ELSE Written(s, "feedback",
                 [i \in 1..Len(s.user_feedback) |->
                     UserFeedback_to_dict(s.user_feedback[i])], w)

(***************************************************************************)
(* Baseline arithmetic.  The floats are modelled by exact rationals <<n,   *)
(* d>> in lowest terms; the Baseline's std_dev field holds std_dev ** 2    *)
(* (math.sqrt when stored, `** 2` when read back).                         *)
(***************************************************************************)
Abs(x) == IF x < 0 THEN -x ELSE x

RECURSIVE GCD(_, _)
GCD(a, b) == IF b = 0 THEN a ELSE GCD(b, a % b)

Rat(n, d) ==
    LET g == GCD(Abs(n), Abs(d))
        sgn == IF d < 0 THEN -1 ELSE 1
    IN <<sgn * (n \div g), sgn * (d \div g)>>

RatAdd(a, b) == Rat(a[1] * b[2] + b[1] * a[2], a[2] * b[2])
RatSub(a, b) == Rat(a[1] * b[2] - b[1] * a[2], a[2] * b[2])
RatMul(a, b) == Rat(a[1] * b[1], a[2] * b[2])
RatDivInt(a, n) == Rat(a[1], a[2] * n)
RatLess(a, b) == a[1] * b[2] < b[1] * a[2]
\* A minimum that keeps what it has.
RatFirst(a, b) == a

RatMin(a, b) == IF RatLess(b, a) THEN b ELSE a
RatMax(a, b) == IF RatLess(a, b) THEN b ELSE a

\* An update that forgets the baseline it finds.
update_baseline_restarting(s, o, t, w) ==
    LET value == Rat(o.value.n, 1)
    IN save_baselines(
         [s EXCEPT !.baselines =
             DictSet(@, Key(o.agent, o.metric),
                     [agent |-> o.agent, metric |-> o.metric, mean |-> value,
                      std_dev |-> Rat(0, 1), min_value |-> value,
                      max_value |-> value, sample_count |-> 1,
                      last_updated |-> Instant(t)])],
         w)

\* An update whose variance has the divisor n - 1.
update_baseline_sample_variance(s, o, t, w) ==
    LET key == Key(o.agent, o.metric)
        value == Rat(o.value.n, 1)
        old == DictGet(s.baselines, key)
        created == [agent |-> o.agent, metric |-> o.metric, mean |-> value,
                    std_dev |-> Rat(0, 1), min_value |-> value,
                    max_value |-> value, sample_count |-> 1,
                    last_updated |-> Instant(t)]
        baseline == old[1]
        n == baseline.sample_count + 1
        delta == RatSub(value, baseline.mean)
        new_mean == RatAdd(baseline.mean, RatDivInt(delta, n))
        delta2 == RatSub(value, new_mean)
        new_variance ==
            RatDivInt(RatAdd(RatMul(baseline.std_dev, Rat(n - 2, 1)),
                             RatMul(delta, delta2)), n - 1)
        updated == [baseline EXCEPT
                      !.mean = new_mean,
                      !.std_dev = new_variance,
                      !.min_value = RatMin(@, value),
                      !.max_value = RatMax(@, value),
                      !.sample_count = n,
                      !.last_updated = Instant(t)]
        b == IF old = None THEN created ELSE updated
    IN save_baselines([s EXCEPT !.baselines = DictSet(@, key, b)], w)

\* _update_baseline: a first sample creates the baseline; a later one updates
\* it by Welford's algorithm; either way _save_baselines follows.
update_baseline(s, o, t, w) ==
    LET key == Key(o.agent, o.metric)
        value == Rat(o.value.n, 1)
        old == DictGet(s.baselines, key)
        created == [agent |-> o.agent, metric |-> o.metric, mean |-> value,
                    std_dev |-> Rat(0, 1), min_value |-> value,
                    max_value |-> value, sample_count |-> 1,
                    last_updated |-> Instant(t)]
        baseline == old[1]
        n == baseline.sample_count + 1
        delta == RatSub(value, baseline.mean)
        new_mean == RatAdd(baseline.mean, RatDivInt(delta, n))
        delta2 == RatSub(value, new_mean)
        new_variance ==
            RatDivInt(RatAdd(RatMul(baseline.std_dev, Rat(n - 1, 1)),
                             RatMul(delta, delta2)), n)
        updated == [baseline EXCEPT
                      !.mean = new_mean,
                      !.std_dev = new_variance,
                      !.min_value = RatMin(@, value),
                      !.max_value = RatMax(@, value),
                      !.sample_count = n,
                      !.last_updated = Instant(t)]
        b == IF old = None THEN created ELSE updated
    IN save_baselines([s EXCEPT !.baselines = DictSet(@, key, b)], w)

\* MemoryStore.get_baseline
get_baseline(s, agent, metric) == DictGet(s.baselines, Key(agent, metric))

\* Baseline.is_anomaly(value, sensitivity), the sensitivity in halves:
\*     if self.std_dev == 0: return value != self.mean
\*     return abs(value - self.mean) / self.std_dev > sensitivity
\* With v the variance, |x - m| / sqrt(v) > k / 2 is 4 (x - m)^2 > k^2 v.
\* A test that also reports a value at exactly `sensitivity` deviations.
Baseline_is_anomaly_inclusive(b, value, sens) ==
    LET d == RatSub(Rat(value, 1), b.mean)
    IN IF b.std_dev = Rat(0, 1) THEN Rat(value, 1) # b.mean
       ELSE ~RatLess(RatMul(Rat(4, 1), RatMul(d, d)),
                     RatMul(Rat(sens * sens, 1), b.std_dev))

Baseline_is_anomaly(b, value, sens) ==
    LET d == RatSub(Rat(value, 1), b.mean)
    IN IF b.std_dev = Rat(0, 1) THEN Rat(value, 1) # b.mean
       ELSE RatLess(RatMul(Rat(sens * sens, 1), b.std_dev),
                    RatMul(Rat(4, 1), RatMul(d, d)))

MinSamples == 10

\* An anomaly test that does not wait for enough samples.
MemoryStore_is_anomaly_unguarded(s, agent, metric, value, sens) ==
    LET baseline == get_baseline(s, agent, metric)
    IN IF baseline = None THEN FALSE
       ELSE Baseline_is_anomaly(baseline[1], value, sens)

\* MemoryStore.is_anomaly: False without a baseline of at least 10 samples.
MemoryStore_is_anomaly(s, agent, metric, value, sens) ==
    LET baseline == get_baseline(s, agent, metric)
    IN IF baseline = None \/ baseline[1].sample_count < MinSamples THEN FALSE
       ELSE Baseline_is_anomaly(baseline[1], value, sens)

\* The k-th write_text of an operation goes the way the fault says when the
\* fault is at k, and well otherwise.
NoFault == [at |-> 0, how |-> "ok"]
Faults == {NoFault} \cup
          {[at |-> k, how |-> h] : k \in 1..2, h \in WriteWays \ {"ok"}}
W(f, k) == IF f.at = k THEN f.how ELSE "ok"

\* record_observation: append, _save_observations, then (for a numeric
\* value) _update_baseline.
record_observation(s, o, t, f) ==
    LET r == save_observations([s EXCEPT !.observations = Append(@, o)], t, W(f, 1))
    IN IF r.st # "ok" THEN r
       ELSE IF IsNumber(o.value) THEN update_baseline(r.s, o, t, W(f, 2))
       ELSE r

\* LearningAgent.observe: build the Observation (timestamp = now) and record it.
observe(s, name, metric, value, context, t, f) ==
    record_observation(s, [agent |-> name, metric |-> metric, value |-> value,
                           timestamp |-> Instant(t), context |-> context], t, f)

\* sorted(results, key=lambda o: o.timestamp): stable.
InsertByTimestamp(obs, o) ==
    LET k == Cardinality({j \in 1..Len(obs) : obs[j].timestamp.t <= o.timestamp.t})
    IN SubSeq(obs, 1, k) \o <<o>> \o SubSeq(obs, k + 1, Len(obs))

RECURSIVE SortedByTimestamp(_, _)
SortedByTimestamp(acc, rest) ==
    IF rest = <<>> THEN acc
    ELSE SortedByTimestamp(InsertByTimestamp(acc, Head(rest)), Tail(rest))

\* get_observations(agent, metric, since): the agent's observations of the
\* metric with timestamp > since, by timestamp.
get_observations(s, agent, metric, since) ==
    SortedByTimestamp(<<>>,
        SelectSeq(s.observations,
                  LAMBDA o : /\ o.agent = agent /\ o.metric = metric
                             /\ o.timestamp.t > since))

RECURSIVE RatSum(_)
RatSum(vs) == IF vs = <<>> THEN Rat(0, 1) ELSE RatAdd(Rat(Head(vs), 1), RatSum(Tail(vs)))

\* a / b for b # 0.
RatDiv(a, b) == Rat(a[1] * b[2], a[2] * b[1])

TrendPercent == 10

\* diff_pct > 10: "increasing"; diff_pct < -10: "decreasing"; else "stable".
TrendOf(diff_pct) ==
    IF RatLess(Rat(TrendPercent, 1), diff_pct) THEN "increasing"
    ELSE IF RatLess(diff_pct, Rat(-TrendPercent, 1)) THEN "decreasing"
    ELSE "stable"

\* get_trend(agent, metric, days): the means of the two halves of the numeric
\* values of the last `days` days, compared in percent of the first.
get_trend(s, agent, metric, days, t) ==
    LET found == get_observations(s, agent, metric, t - days)
        numeric == SelectSeq(found, LAMBDA o : IsNumber(o.value))
        values == [j \in 1..Len(numeric) |-> numeric[j].value.n]
        n == Len(values)
        mid == n \div 2
        first_half == RatDivInt(RatSum(SubSeq(values, 1, mid)), mid)
        second_half == RatDivInt(RatSum(SubSeq(values, mid + 1, n)), n - mid)
        diff_pct == IF first_half # Rat(0, 1)
                    THEN RatMul(RatDiv(RatSub(second_half, first_half), first_half),
                                Rat(100, 1))
                    ELSE Rat(0, 1)
    IN IF Len(found) < 2 THEN "unknown"
       ELSE IF n < 2 THEN "unknown"
       ELSE TrendOf(diff_pct)

\* add_pattern: self._patterns[key] = pattern; self._save_patterns()
add_pattern(s, p, w) ==
    save_patterns([s EXCEPT !.patterns = DictSet(@, Key(p.agent, p.name), p)], w)

get_patterns(s, agent) == SelectSeq(DictValues(s.patterns), LAMBDA p : p.agent = agent)

get_pattern(s, agent, name) == DictGet(s.patterns, Key(agent, name))

\* trigger_pattern: a known pattern is counted, stamped and saved.
trigger_pattern(s, agent, name, t, w) ==
    LET pattern == get_pattern(s, agent, name)
    IN IF pattern = None THEN Step(s, "ok")
       ELSE save_patterns(
              [s EXCEPT !.patterns =
                  DictSet(@, Key(agent, name),
                          [pattern[1] EXCEPT !.occurrences = @ + 1,
                                             !.last_triggered = Some(Instant(t))])],
              w)

\* Confidence is counted in tenths: 5 is 0.5, 10 is 1.0.
InitialConfidence == 5
ConfidenceStep == 1
FullConfidence == 10
SuppressConfidence == 7

Min(a, b) == IF a < b THEN a ELSE b

SuppressName(alert_type) == "suppress_" \o alert_type

\* _learn_from_feedback: a false_positive strengthens the pattern
\* suppress_<alert_type> in memory, or creates it through add_pattern.
learn_from_feedback(s, fb, t, w) ==
    IF fb.feedback # "false_positive" THEN Step(s, "ok")
    ELSE LET pattern_name == SuppressName(fb.alert_type)
             existing == get_pattern(s, fb.agent, pattern_name)
         IN IF existing # None
            THEN Step([s EXCEPT !.patterns =
                         DictSet(@, Key(fb.agent, pattern_name),
                                 [existing[1] EXCEPT
                                    !.confidence = Min(FullConfidence, @ + ConfidenceStep),
                                    !.occurrences = @ + 1])],
                      "ok")
            ELSE add_pattern(s,
                   [agent |-> fb.agent, name |-> pattern_name,
                    description |-> "Auto-learned: suppress " \o fb.alert_type
                                    \o " alerts",
                    condition |-> fb.context, action |-> "ignore",
                    confidence |-> InitialConfidence, occurrences |-> 1,
                    last_triggered |-> None, created_at |-> Instant(t)],
                   w)

\* record_feedback: append, _save_feedback, _learn_from_feedback.
record_feedback(s, fb, t, f) ==
    LET r == save_feedback([s EXCEPT !.user_feedback = Append(@, fb)], W(f, 1))
    IN IF r.st # "ok" THEN r ELSE learn_from_feedback(r.s, fb, t, W(f, 2))

(***************************************************************************)
(* LearningAgent.  A context is a set of <<key, value>> pairs.             *)
(***************************************************************************)
\* A match on the condition's keys alone, whatever their values.
matches_pattern_keys_only(pattern, context) ==
    \A kv \in pattern.condition : \E c \in context : c[1] = kv[1]

\* _matches_pattern: every key of the condition is in the context, with the
\* expected value.
matches_pattern(pattern, context) ==
    \A kv \in pattern.condition :
        /\ \E c \in context : c[1] = kv[1]
        /\ \A c \in context : c[1] = kv[1] => c[2] = kv[2]

\* should_suppress_alert: the first "ignore" pattern of the agent with
\* confidence >= 0.7 whose condition matches is triggered; alert_type is not
\* looked at.
Suppressing(s, name, context) ==
    LET ps == get_patterns(s, name)
    IN {i \in 1..Len(ps) :
          /\ ps[i].action = "ignore"
          /\ ~(ps[i].confidence < SuppressConfidence)
          /\ matches_pattern(ps[i], context)}

should_suppress_alert(s, name, alert_type, context, t, w) ==
    LET ps == get_patterns(s, name)
        hits == Suppressing(s, name, context)
        first == CHOOSE i \in hits : \A j \in hits : i <= j
    IN IF hits = {} THEN [s |-> s, st |-> "ok", ret |-> FALSE]
       ELSE LET r == trigger_pattern(s, name, ps[first].name, t, w)
            IN [s |-> r.s, st |-> r.st, ret |-> TRUE]

SuppressedPrefix == "[Suppressed] "

\* A suppression that drops the alert.
add_feedback_with_context_dropping(s, buf, name, priority, message, alert_type, context, t, w) ==
    LET r == should_suppress_alert(s, name, alert_type, context, t, w)
    IN [s |-> r.s, st |-> r.st, ret |-> r.ret,
        buf |-> IF r.st # "ok" \/ r.ret THEN buf
                ELSE add_feedback(buf, name, priority, message)]

\* add_feedback_with_context: a suppressed alert is downgraded to INFO and
\* marked, and the alert is added to the agent's feedback either way.
add_feedback_with_context(s, buf, name, priority, message, alert_type, context, t, w) ==
    LET r == should_suppress_alert(s, name, alert_type, context, t, w)
    IN [s |-> r.s, st |-> r.st, ret |-> r.ret,
        buf |-> IF r.st # "ok" THEN buf
                ELSE IF r.ret
                THEN add_feedback(buf, name, INFO, SuppressedPrefix \o message)
                ELSE add_feedback(buf, name, priority, message)]

\* Sensitivities are counted in halves: 4 is 2.0, 8 is 4.0, 2 is 1.0.
DefaultSensitivity == 4
SensitivityStep == 1
MaxSensitivity == 8
MinSensitivity == 2

Max(a, b) == IF a < b THEN b ELSE a

\* dict.get(key, default)
DictGetOr(d, k, default) == IF DictHas(d, k) THEN DictGet(d, k)[1] ELSE default

\* LearningAgent.is_anomaly: the sensitivity is looked up under the metric.
SensitivityFor(sens, metric) == DictGetOr(sens, metric, DefaultSensitivity)

LearningAgent_is_anomaly(s, sens, name, metric, value) ==
    MemoryStore_is_anomaly(s, name, metric, value, SensitivityFor(sens, metric))

\* receive_user_feedback: build the UserFeedback (timestamp = now) and record
\* it; when that returned, "too_sensitive" raises and "too_late" lowers the
\* sensitivity kept under the alert type.  sens is self._sensitivity.
receive_user_feedback(s, sens, name, alert_type, feedback, context, t, f) ==
    LET r == record_feedback(s, [agent |-> name, alert_type |-> alert_type,
                                 feedback |-> feedback, context |-> context,
                                 timestamp |-> Instant(t)], t, f)
        current == DictGetOr(sens, alert_type, DefaultSensitivity)
    IN [s |-> r.s, st |-> r.st,
        sens |-> IF r.st # "ok" THEN sens
                 ELSE IF feedback = "too_sensitive"
                 THEN DictSet(sens, alert_type,
                              Min(MaxSensitivity, current + SensitivityStep))
                 ELSE IF feedback = "too_late"
                 THEN DictSet(sens, alert_type,
                              Max(MinSensitivity, current - SensitivityStep))
                 ELSE sens]

(***************************************************************************)
(* The store in use: one learning agent (the storage agent) on one store,  *)
(* the process that holds them, and whatever else touches the directory    *)
(* while no process runs.                                                  *)
(***************************************************************************)
LearnerName == "storage"
AlertTypes == {"storage_high"}
\* The feedback kind _learn_from_feedback acts on; the other kinds ("useful",
\* "too_late", "too_sensitive") only add an entry to the feedback list.
FeedbackKinds == {"false_positive"}
FeedbackContexts == {{<<"volume", "V1">>}}
AlertContexts == {{<<"volume", "V1">>, <<"usage_percent", "92">>},
                  {<<"volume", "V2">>, <<"usage_percent", "92">>}}
AlertMessage == "Volume running low on space"
ObsMetrics == {"usage_percent_V1"}
ObsValues == {Number(10), Number(20)}
ObsContext == {<<"volume", "V1">>}

\* A pattern added by hand through add_pattern; should_suppress_alert skips
\* it, its action not being "ignore".
ManualPatterns(t) ==
    {[agent |-> LearnerName, name |-> "degraded",
      description |-> "Escalate alerts on volume V1",
      condition |-> {<<"volume", "V1">>}, action |-> "escalate",
      confidence |-> 9, occurrences |-> 0, last_triggered |-> None,
      created_at |-> Instant(t)]}

TheStore == StoreOf(observations, baselines, patterns, user_feedback, disk)

\* The variables after an operation that ended as r: a process that died
\* takes its caches and its agent (buffer and sensitivities) with it.
Becomes(r, buf, sens) ==
    /\ disk' = r.s.disk
    /\ pristine' = (pristine /\ r.st \notin {"OSError", "died"})
    /\ IF r.st = "died"
       THEN /\ proc' = "down"
            /\ observations' = <<>> /\ baselines' = <<>>
            /\ patterns' = <<>> /\ user_feedback' = <<>>
            /\ learner_feedback' = <<>>
            /\ sensitivity' = <<>>
       ELSE /\ proc' = "up"
            /\ observations' = r.s.observations /\ baselines' = r.s.baselines
            /\ patterns' = r.s.patterns /\ user_feedback' = r.s.user_feedback
            /\ learner_feedback' = buf
            /\ sensitivity' = sens

\* One disturbance per run is modelled: a write goes wrong only while no
\* write has gone wrong and nobody else has touched the files.
MayFail(f) == f = NoFault \/ pristine

\* What the step did: the operation, how it ended, and the directory before
\* it and as the operation would have left it with every write going well.
Did(op, r, ok, arg) ==
    Some([op |-> op, st |-> r.st, arg |-> arg, before |-> learner_feedback,
          disk_before |-> disk, disk_after |-> ok.s.disk])

OccurrencesRoom ==
    \A i \in 1..Len(patterns) : patterns[i].v.occurrences < MaxOccurrences

\* MemoryStore(data_dir): the four loads; an exception leaves no store.
Construct ==
    /\ proc \in {"down", "failed"}
    /\ LET r == load_all(disk, now)
       IN /\ proc' = IF r.exc = None THEN "up" ELSE "failed"
          /\ observations' = IF r.exc = None THEN r.s.observations ELSE <<>>
          /\ baselines' = IF r.exc = None THEN r.s.baselines ELSE <<>>
          /\ patterns' = IF r.exc = None THEN r.s.patterns ELSE <<>>
          /\ user_feedback' = IF r.exc = None THEN r.s.user_feedback ELSE <<>>
          /\ last' = Some([op |-> "construct", st |-> IF r.exc = None THEN "ok" ELSE r.exc[1]])
    /\ UNCHANGED <<now, disk, learner_feedback, sensitivity, fp_count,
                   pristine, recorded>>
    /\ UNCHANGED RunVars

\* The process ends between two operations.
Exit ==
    /\ proc = "up"
    /\ proc' = "down"
    /\ observations' = <<>> /\ baselines' = <<>>
    /\ patterns' = <<>> /\ user_feedback' = <<>>
    /\ learner_feedback' = <<>>
    /\ sensitivity' = <<>>
    /\ last' = None
    /\ UNCHANGED <<now, disk, fp_count, pristine, recorded>>
    /\ UNCHANGED RunVars

\* LearningAgent.receive_user_feedback(alert_type, feedback, context)
ReceiveUserFeedback(alert_type, kind, context, f) ==
    /\ proc = "up"
    /\ MayFail(f)
    /\ Len(user_feedback) < MaxFeedback
    /\ OccurrencesRoom
    /\ LET r == receive_user_feedback(TheStore, sensitivity, LearnerName,
                                      alert_type, kind, context, now, f)
           ok == receive_user_feedback(TheStore, sensitivity, LearnerName,
                                       alert_type, kind, context, now, NoFault)
       IN /\ Becomes(r, learner_feedback, r.sens)
          /\ last' = Did("receive_user_feedback", r, ok, kind)
    /\ fp_count' = IF kind = "false_positive"
                   THEN Min(MaxFeedback, fp_count + 1) ELSE fp_count
    /\ UNCHANGED <<now, recorded>>
    /\ UNCHANGED RunVars

\* LearningAgent.add_feedback_with_context(HIGH, message, alert_type, context)
AddFeedbackWithContext(alert_type, context, f) ==
    /\ proc = "up"
    /\ MayFail(f)
    /\ Len(learner_feedback) < MaxAlerts
    /\ OccurrencesRoom
    /\ LET r == add_feedback_with_context(TheStore, learner_feedback, LearnerName,
                    HIGH, AlertMessage, alert_type, context, now, W(f, 1))
           ok == add_feedback_with_context(TheStore, learner_feedback, LearnerName,
                    HIGH, AlertMessage, alert_type, context, now, "ok")
       IN /\ Becomes(r, r.buf, sensitivity)
          /\ last' = Did("add_feedback_with_context", r, ok,
                         [suppressed |-> r.ret, context |-> context])
    /\ UNCHANGED <<now, fp_count, recorded>>
    /\ UNCHANGED RunVars

\* BaseAgent.get_feedback() on the learning agent: the buffer is handed over.
GetFeedback ==
    /\ proc = "up"
    /\ learner_feedback # <<>>
    /\ learner_feedback' = get_feedback(learner_feedback).buf
    /\ last' = None
    /\ UNCHANGED <<proc, now, observations, baselines, patterns, user_feedback,
                   disk, sensitivity, fp_count, pristine, recorded>>
    /\ UNCHANGED RunVars

\* MemoryStore.add_pattern(pattern)
AddPattern(p, f) ==
    /\ proc = "up"
    /\ MayFail(f)
    /\ ~DictHas(patterns, Key(p.agent, p.name))
    /\ LET r == add_pattern(TheStore, p, W(f, 1))
           ok == add_pattern(TheStore, p, "ok")
       IN /\ Becomes(r, learner_feedback, sensitivity)
          /\ last' = Did("add_pattern", r, ok, p.name)
    /\ UNCHANGED <<now, fp_count, recorded>>
    /\ UNCHANGED RunVars

\* MemoryStore.trigger_pattern(agent, name)
TriggerPattern(name, f) ==
    /\ proc = "up"
    /\ MayFail(f)
    /\ OccurrencesRoom
    /\ LET r == trigger_pattern(TheStore, LearnerName, name, now, W(f, 1))
           ok == trigger_pattern(TheStore, LearnerName, name, now, "ok")
       IN /\ Becomes(r, learner_feedback, sensitivity)
          /\ last' = Did("trigger_pattern", r, ok, name)
    /\ UNCHANGED <<now, fp_count, recorded>>
    /\ UNCHANGED RunVars

\* LearningAgent.observe(metric, value, context) -> record_observation
RecordObservation(metric, value, f) ==
    /\ proc = "up"
    /\ MayFail(f)
    /\ Len(observations) < MaxObs
    /\ \A i \in 1..Len(baselines) : baselines[i].v.sample_count < MaxSamples
    /\ LET o == [agent |-> LearnerName, metric |-> metric, value |-> value,
                 timestamp |-> Instant(now), context |-> ObsContext]
           r == record_observation(TheStore, o, now, f)
           ok == record_observation(TheStore, o, now, NoFault)
       IN /\ Becomes(r, learner_feedback, sensitivity)
          /\ last' = Did("record_observation", r, ok, metric)
          /\ recorded' = Append(recorded, [agent |-> o.agent, metric |-> o.metric,
                                           value |-> o.value, t |-> now])
    /\ UNCHANGED <<now, fp_count>>
    /\ UNCHANGED RunVars

\* Time passes.
Tick ==
    /\ now + TickDays <= MaxNow
    /\ now' = now + TickDays
    /\ last' = None
    /\ UNCHANGED <<proc, observations, baselines, patterns, user_feedback, disk,
                   learner_feedback, sensitivity, fp_count, pristine, recorded>>
    /\ UNCHANGED RunVars

(***************************************************************************)
(* What else may happen to the directory while no process runs: a file is  *)
(* replaced by something that is no JSON list, its first record is damaged,*)
(* or it is deleted.  One such interference per run is modelled.           *)
(***************************************************************************)
TimestampField(fname) ==
    CASE fname = "observations" -> "timestamp"
      [] fname = "baselines" -> "last_updated"
      [] fname = "patterns" -> "created_at"
      [] OTHER -> "timestamp"

\* The keys to_dict writes for a record of the file.
FullKeys(fname) ==
    CASE fname = "observations" -> {"agent", "metric", "value", "timestamp", "context"}
      [] fname = "baselines" -> {"agent", "metric", "mean", "std_dev", "min_value",
                                 "max_value", "sample_count", "last_updated"}
      [] fname = "patterns" -> {"agent", "name", "description", "condition",
                                "action", "confidence", "occurrences",
                                "last_triggered", "created_at"}
      [] OTHER -> {"agent", "alert_type", "feedback", "context", "timestamp"}

\* The keys that may go missing: one every loader needs, and one it has a
\* default for (the baselines have none).
MissingChoices(fname) ==
    CASE fname = "observations" -> {"agent", "context"}
      [] fname = "baselines" -> {"agent"}
      [] fname = "patterns" -> {"agent", "occurrences"}
      [] OTHER -> {"agent", "timestamp"}

RecordDamages(fname) ==
    {[how |-> "missing", field |-> k] : k \in MissingChoices(fname)}
    \cup {[how |-> "extra", field |-> "extra"],
          [how |-> "bad_timestamp", field |-> TimestampField(fname)]}

DamagedRecord(d, dmg) ==
    CASE dmg.how = "missing" -> [k \in DOMAIN d \ {dmg.field} |-> d[k]]
      [] dmg.how = "extra" -> d @@ ("extra" :> "x")
      [] OTHER -> [d EXCEPT ![dmg.field] = Garbage]

NotJsonLists == {Malformed, JsonObject, EmptyObject, Unreadable}

Interfere(fname, file) ==
    /\ proc \in {"down", "failed"}
    /\ pristine
    /\ disk' = [disk EXCEPT ![fname] = file]
    /\ pristine' = FALSE
    /\ last' = None
    /\ UNCHANGED <<proc, now, observations, baselines, patterns, user_feedback,
                   learner_feedback, sensitivity, fp_count, recorded>>
    /\ UNCHANGED RunVars

CorruptFile(fname, content) == Interfere(fname, content)

CorruptRecord(fname, dmg) ==
    /\ disk[fname].kind = "list" /\ disk[fname].items # <<>>
    /\ Interfere(fname, JsonList([disk[fname].items EXCEPT
                                    ![1] = DamagedRecord(@, dmg)]))

DeleteFile(fname) ==
    /\ disk[fname] # Absent
    /\ Interfere(fname, Absent)

(***************************************************************************)
(* Tuning: user feedback of every kind on the storage agent's growth       *)
(* alert, and the anomaly check that produces that alert                   *)
(* (_check_growth_anomaly: is_anomaly on used_gb_<volume>).                *)
(***************************************************************************)
GrowthAlert == "storage_growth_anomaly"
GrowthMetric == "used_gb_V1"

\* The alert type the anomaly check on a metric produces.
AlertTypeOf(metric) == GrowthAlert

TuningInputs ==
    {[kind |-> "false_positive", context |-> {<<"volume", "V1">>}],
     [kind |-> "false_positive", context |-> {<<"volume", "V2">>}],
     [kind |-> "useful", context |-> {<<"volume", "V1">>}],
     [kind |-> "too_late", context |-> {<<"volume", "V1">>}],
     [kind |-> "too_sensitive", context |-> {<<"volume", "V1">>}]}

\* LearningAgent.receive_user_feedback(alert_type, feedback, context), every
\* write going well.
Tune(alert_type, given) ==
    /\ proc = "up"
    /\ Len(user_feedback) < MaxTuning
    /\ LET r == receive_user_feedback(TheStore, sensitivity, LearnerName,
                                      alert_type, given.kind, given.context, now, NoFault)
       IN /\ Becomes(r, learner_feedback, r.sens)
          /\ last' = Some([op |-> "receive_user_feedback", st |-> r.st,
                           alert_type |-> alert_type, kind |-> given.kind,
                           context |-> given.context,
                           sensitivity_before |-> sensitivity,
                           patterns_before |-> patterns])
    /\ fp_count' = IF given.kind = "false_positive"
                   THEN Min(MaxFeedback, fp_count + 1) ELSE fp_count
    /\ UNCHANGED <<now, recorded>>
    /\ UNCHANGED RunVars

\* LearningAgent.is_anomaly(metric, value)
AskAnomaly(metric, value) ==
    /\ proc = "up"
    /\ last' = Some([op |-> "is_anomaly", st |-> "ok", metric |-> metric,
                     value |-> value,
                     sensitivity |-> SensitivityFor(sensitivity, metric),
                     ret |-> LearningAgent_is_anomaly(TheStore, sensitivity,
                                                      LearnerName, metric, value)])
    /\ UNCHANGED StoreVars
    /\ UNCHANGED RunVars

(***************************************************************************)
(* The store used directly: observations of any agent and metric, and      *)
(* anomaly tests, every write going well.                                  *)
(***************************************************************************)
\* MemoryStore.record_observation(Observation(agent, metric, value))
Observe(agent, metric, value) ==
    /\ proc = "up"
    /\ LET r == observe(TheStore, agent, metric, value, {}, now, NoFault)
       IN /\ Becomes(r, learner_feedback, sensitivity)
          /\ last' = Some([op |-> "record_observation", st |-> r.st,
                           agent |-> agent, metric |-> metric, value |-> value,
                           baselines_before |-> baselines])
    /\ recorded' = Append(recorded, [agent |-> agent, metric |-> metric,
                                     value |-> value, t |-> now])
    /\ UNCHANGED <<now, fp_count>>
    /\ UNCHANGED RunVars

\* MemoryStore.is_anomaly(agent, metric, value, sensitivity)
IsAnomaly(agent, metric, value, sens) ==
    /\ proc = "up"
    /\ last' = Some([op |-> "is_anomaly", st |-> "ok", agent |-> agent,
                     metric |-> metric, value |-> value, sensitivity |-> sens,
                     ret |-> MemoryStore_is_anomaly(TheStore, agent, metric,
                                                    value, sens)])
    /\ UNCHANGED StoreVars
    /\ UNCHANGED RunVars

\* Pairs of an agent and a metric: the first two differ in both strings and
\* share the text "disks:temp:sda".
KeyPairs ==
    {[agent |-> "disks", metric |-> "temp:sda"],
     [agent |-> "disks:temp", metric |-> "sda"],
     [agent |-> "disks", metric |-> "temp_sdb"]}
KeyValues == {Number(10), Number(20), Text}

SeriesValues == {10, 20}
SeriesSensitivities == {MinSensitivity, DefaultSensitivity, MaxSensitivity}

(***************************************************************************)
(* A health check of learning agents on one shared store.  observe() and   *)
(* record_observation() are plain functions: a task reaches them between   *)
(* two awaited API calls, and no other task runs until the next await.     *)
(***************************************************************************)
ConcAgents == {"security", "storage"}
ConcValues == {Number(10), Number(20)}

\* The metrics a try block's analysis observes: _analyze_storage records the
\* usage and the used space of a volume one after the other; of the security
\* agent's, the first of _analyze_security_scan and the first of
\* _analyze_connections stand for their group.
SegmentMetrics(name, try_no) ==
    CASE name = "storage" -> <<"usage_percent_V1", "used_gb_V1">>
      [] name = "security" /\ try_no = 1 -> <<"security_issues_total">>
      [] OTHER -> <<"failed_logins_24h">>

\* The observe() calls of one analysis, in call order.
RECURSIVE ObserveAll(_, _, _, _, _)
ObserveAll(s, name, metrics, v, t) ==
    IF metrics = <<>> THEN s
    ELSE ObserveAll(observe(s, name, Head(metrics), v, {}, t, NoFault).s,
                    name, Tail(metrics), v, t)

CallsOf(name, metrics, v, t) ==
    [k \in 1..Len(metrics) |->
        [agent |-> name, metric |-> metrics[k], value |-> v, t |-> t]]

\* The try block of task i that is under way, with the API call it awaited
\* having returned data v (api = None) or raised (api = Some(e)).
Segment(i, api, v) ==
    LET try_no == IF pc[i] = "api1" THEN 1 ELSE 2
        metrics == IF api # None THEN <<>> ELSE SegmentMetrics(agents[i], try_no)
        s == ObserveAll(TheStore, agents[i], metrics, v, now)
    IN [try_no |-> try_no, s |-> s, calls |-> CallsOf(agents[i], metrics, v, now),
        buf |-> TryBlock(feedback_buf[i], agents[i], try_no, api, NoAnalysis)]

SegmentStore(seg) ==
    /\ observations' = seg.s.observations
    /\ baselines' = seg.s.baselines
    /\ disk' = seg.s.disk
    /\ recorded' = recorded \o seg.calls
    /\ UNCHANGED <<proc, now, patterns, user_feedback, learner_feedback,
                   sensitivity, fp_count, pristine>>

\* SecurityAgent.check: the first try block runs to its end, and the task
\* suspends in get_connection_logs().
ObserveThenAwait(i, api, v) ==
    /\ phase = "running" /\ proc = "up"
    /\ agents[i] = "security" /\ pc[i] = "api1"
    /\ LET seg == Segment(i, api, v)
       IN /\ SegmentStore(seg)
          /\ feedback_buf' = [feedback_buf EXCEPT ![i] = seg.buf]
    /\ pc' = [pc EXCEPT ![i] = "api2"]
    /\ last' = None
    /\ UNCHANGED <<agents, phase, task_result, results, report, min_priority,
                   store_failed>>

\* The last (or only) try block runs to its end; check(), run() and
\* run_agent return.
ObserveThenReturn(i, api, v) ==
    /\ phase = "running" /\ proc = "up"
    /\ agents[i] \in ConcAgents
    /\ pc[i] = IF agents[i] = "security" THEN "api2" ELSE "api1"
    /\ LET seg == Segment(i, api, v)
           ran == run(DomainCheckEnd(seg.buf))
       IN /\ SegmentStore(seg)
          /\ Finish(i, run_agent_ok(agents[i], ran), ran.buf, feedback_buf[i],
                    api, seg.buf, None, FALSE)
    /\ UNCHANGED <<agents, phase, results, report, min_priority>>

(***************************************************************************)
(* Patterns in use: patterns of any kind put into the store through        *)
(* add_pattern, replaced, triggered and asked for suppression.             *)
(***************************************************************************)
WarningAlert == "storage_warning"
HighAlert == "storage_high"

\* Pattern(agent, name, description, condition, action, confidence): a
\* pattern as its constructor leaves it, with occurrences = 0 and
\* last_triggered = None.
GivenPattern(agent, alert_type, condition, action, confidence, t) ==
    [agent |-> agent, name |-> SuppressName(alert_type),
     description |-> "given", condition |-> condition, action |-> action,
     confidence |-> confidence, occurrences |-> 0, last_triggered |-> None,
     created_at |-> Instant(t)]

\* Patterns handed to add_pattern: under two names of the learning agent,
\* with an action that suppresses or not, a confidence below or at 0.7, a
\* condition that is empty or names a volume; and one pattern of another
\* agent that matches every context.
GivenPatterns(t) ==
    {GivenPattern(LearnerName, WarningAlert, {}, "ignore", SuppressConfidence, t),
     GivenPattern(LearnerName, WarningAlert, {}, "ignore", SuppressConfidence - 1, t),
     GivenPattern(LearnerName, WarningAlert, {}, "escalate", SuppressConfidence, t),
     GivenPattern(LearnerName, HighAlert, {<<"volume", "V1">>}, "ignore",
                  SuppressConfidence, t),
     GivenPattern(LearnerName, HighAlert, {}, "ignore", FullConfidence, t),
     GivenPattern("disks", HighAlert, {}, "ignore", FullConfidence, t)}

\* The given patterns under the name that feedback on HighAlert teaches.
CountedPatterns(t) ==
    {p \in GivenPatterns(t) :
        p.agent = LearnerName /\ p.name = SuppressName(HighAlert)}

\* Feedback that teaches a pattern, with and without a context.
LearningInputs ==
    {[kind |-> "false_positive", context |-> {<<"volume", "V1">>}],
     [kind |-> "false_positive", context |-> {}]}

\* Contexts of the alerts asked about: none, a volume the conditions name
\* (with one more key), and another volume.
AskedContexts ==
    {{},
     {<<"volume", "V1">>, <<"usage_percent", "92">>},
     {<<"volume", "V2">>, <<"usage_percent", "92">>}}

\* MemoryStore.add_pattern(pattern): adds the pattern or replaces the one
\* stored under its key.
PutPattern(p) ==
    /\ proc = "up"
    /\ LET r == add_pattern(TheStore, p, "ok")
       IN /\ Becomes(r, learner_feedback, sensitivity)
          /\ last' = Some([op |-> "add_pattern", st |-> r.st,
                           patterns_before |-> patterns])
    /\ UNCHANGED <<now, fp_count, recorded>>
    /\ UNCHANGED RunVars

\* LearningAgent.should_suppress_alert(alert_type, context); the save of the
\* triggered pattern goes the way w.
AskSuppress(alert_type, context, w) ==
    /\ proc = "up"
    /\ w = "ok" \/ pristine
    /\ OccurrencesRoom
    /\ LET r == should_suppress_alert(TheStore, LearnerName, alert_type,
                                      context, now, w)
       IN /\ Becomes(r, learner_feedback, sensitivity)
          /\ last' = Some([op |-> "should_suppress_alert", st |-> r.st,
                           alert_type |-> alert_type, context |-> context,
                           ret |-> r.ret, patterns_before |-> patterns])
    /\ UNCHANGED <<now, fp_count, recorded>>
    /\ UNCHANGED RunVars

(***************************************************************************)
(* StorageAgent: one check of a NAS with one volume, every write going     *)
(* well.  The volume's size is 100 GB, so that used_gb and usage_percent   *)
(* are the same number.                                                    *)
(***************************************************************************)
MinSamplesForBaseline == 10

\* LearningAgent.has_sufficient_data
has_sufficient_data(s, name, metric) ==
    LET b == get_baseline(s, name, metric)
    IN b # None /\ b[1].sample_count >= MinSamplesForBaseline

\* get_false_positive_rate: the share of false_positive among the feedback
\* on the agent's alert type, 0 when there is none.
get_false_positive_rate(s, agent, alert_type) ==
    LET relevant == SelectSeq(s.user_feedback,
                              LAMBDA f : f.agent = agent /\ f.alert_type = alert_type)
        false_positives == SelectSeq(relevant, LAMBDA f : f.feedback = "false_positive")
    IN IF relevant = <<>> THEN Rat(0, 1)
       ELSE Rat(Len(false_positives), Len(relevant))

SpaceCritical == 95
SpaceHigh == 90
SpaceWarning == 80
WarningRaise == 5
WarningCap == 85
HighRaise == 2
HighCap == 92
\* fp_rate > 0.3
FpRateLimit == Rat(3, 10)

\* Thresholds that never move.
StorageAgent_default_thresholds(s, name) ==
    [critical |-> SpaceCritical, high |-> SpaceHigh, warning |-> SpaceWarning]

\* StorageAgent._get_adjusted_thresholds
StorageAgent_get_adjusted_thresholds(s, name) ==
    [critical |-> SpaceCritical,
     high |-> IF RatLess(FpRateLimit, get_false_positive_rate(s, name, "storage_high"))
              THEN Min(HighCap, SpaceHigh + HighRaise) ELSE SpaceHigh,
     warning |-> IF RatLess(FpRateLimit,
                            get_false_positive_rate(s, name, "storage_warning"))
                 THEN Min(WarningCap, SpaceWarning + WarningRaise)
                 ELSE SpaceWarning]

\* The text of a number in a context, for the numbers a check is made with.
PercentText(pct) ==
    CASE pct = 79 -> "79.0" [] pct = 80 -> "80.0" [] pct = 84 -> "84.0"
      [] pct = 85 -> "85.0" [] pct = 90 -> "90.0" [] pct = 91 -> "91.0"
      [] pct = 92 -> "92.0" [] pct = 95 -> "95.0" [] OTHER -> "other"

UsageCriticalMessage == "critically low on space"
UsageHighMessage == "running low on space"
UsageWarningMessage == "at capacity"
UsageHealthyMessage == "healthy"
UsageMessages == {UsageCriticalMessage, UsageHighMessage, UsageWarningMessage,
                  UsageHealthyMessage}

\* What a step of the analysis leaves: the store, the agent's buffer.
Analysed(s, buf) == [s |-> s, st |-> "ok", buf |-> buf]

\* The store and the buffer add_feedback_with_context left.
Kept(r) == Analysed(r.s, r.buf)

\* _check_growth_anomaly
StorageAgent_check_growth_anomaly(s, buf, sens, name, vol, used_gb, t) ==
    LET metric == "used_gb_" \o vol
        b == get_baseline(s, name, metric)
    IN IF ~has_sufficient_data(s, name, metric) THEN Analysed(s, buf)
       ELSE IF /\ LearningAgent_is_anomaly(s, sens, name, metric, used_gb)
               /\ b[1].mean # Rat(0, 1)
               /\ RatLess(b[1].mean, Rat(used_gb, 1))
            THEN Kept(add_feedback_with_context(s, buf, name, HIGH,
                              "Unusual storage growth", "storage_growth_anomaly",
                              {<<"volume", vol>>, <<"growth_gb", "growth">>}, t, "ok"))
            ELSE Analysed(s, buf)

\* The usage alert of a volume: by the thresholds, one of three alerts through
\* add_feedback_with_context or the "healthy" item through add_feedback.
StorageAgent_usage_feedback(s, buf, name, vol, usage_percent, thresholds, t) ==
    LET context == {<<"volume", vol>>, <<"usage_percent", PercentText(usage_percent)>>}
    IN IF usage_percent >= thresholds.critical
       THEN Kept(add_feedback_with_context(s, buf, name, CRITICAL,
                         UsageCriticalMessage, "storage_critical", context, t, "ok"))
       ELSE IF usage_percent >= thresholds.high
       THEN Kept(add_feedback_with_context(s, buf, name, HIGH,
                         UsageHighMessage, "storage_high", context, t, "ok"))
       ELSE IF usage_percent >= thresholds.warning
       THEN Kept(add_feedback_with_context(s, buf, name, MEDIUM,
                         UsageWarningMessage, "storage_warning", context, t, "ok"))
       ELSE Analysed(s, add_feedback(buf, name, LOW, UsageHealthyMessage))

\* _predict_full: days_until_full = free_gb / std_dev, compared on the squares.
StorageAgent_predict_full(s, buf, name, vol, free_gb, t) ==
    LET metric == "used_gb_" \o vol
        b == get_baseline(s, name, metric)
    IN IF ~has_sufficient_data(s, name, metric) THEN Analysed(s, buf)
       ELSE IF get_trend(s, name, metric, 7, t) = "increasing"
               /\ RatLess(Rat(0, 1), b[1].std_dev)
            THEN IF RatLess(Rat(free_gb * free_gb, 1), RatMul(Rat(49, 1), b[1].std_dev))
                 THEN Analysed(s, add_feedback(buf, name, CRITICAL, "may be full"))
                 ELSE IF RatLess(Rat(free_gb * free_gb, 1),
                                 RatMul(Rat(900, 1), b[1].std_dev))
                 THEN Analysed(s, add_feedback(buf, name, HIGH, "may be full"))
                 ELSE Analysed(s, buf)
            ELSE Analysed(s, buf)

\* _check_volume_status
StorageAgent_check_volume_status(buf, name, status) ==
    IF status = "crashed" THEN add_feedback(buf, name, CRITICAL, "has crashed")
    ELSE IF status = "degraded" THEN add_feedback(buf, name, CRITICAL, "is degraded")
    ELSE IF status \notin {"normal", "healthy", ""}
    THEN add_feedback(buf, name, HIGH, "status")
    ELSE buf

\* _analyze_storage for one volume, step by step; each step is handed what
\* the step before it left.
\* The two observations of the volume.
VolumeObserved(s, name, v, t) ==
    observe(observe(s, name, "usage_percent_" \o v.name, Number(v.used),
                    {<<"volume", v.name>>}, t, NoFault).s,
            name, "used_gb_" \o v.name, Number(v.used),
            {<<"volume", v.name>>}, t, NoFault)

GrowthChecked(o, buf, sens, name, v, t) ==
    StorageAgent_check_growth_anomaly(o.s, buf, sens, name, v.name, v.used, t)

UsageChecked(g, name, v, t) ==
    StorageAgent_usage_feedback(g.s, g.buf, name, v.name, v.used,
                                StorageAgent_get_adjusted_thresholds(g.s, name), t)

FullPredicted(u, name, v, t) ==
    StorageAgent_predict_full(u.s, u.buf, name, v.name, v.total - v.used, t)

StatusChecked(p, name, v) ==
    Analysed(p.s, StorageAgent_check_volume_status(p.buf, name, v.status))

\* _analyze_storage for the volumes <<v>> : observe twice, the growth check,
\* the thresholds, the usage alert, the prediction, and the status check.
\* A volume of size 0 is passed over by all but the status check.
StorageAgent_analyze_storage(s, buf, sens, name, v, t) ==
    IF v.total = 0
    THEN StatusChecked(Analysed(s, buf), name, v)
    ELSE StatusChecked(
            FullPredicted(
               UsageChecked(
                  GrowthChecked(VolumeObserved(s, name, v, t), buf, sens, name, v, t),
                  name, v, t),
               name, v, t),
            name, v)

\* The volumes a check finds: of size 100 GB with the usage at and beside
\* the thresholds, the fullest of them degraded, or of size 0.
UsagePercents == {79, 80, 84, 85, 90, 91, 92, 95}
EmptyVolume == [name |-> "V1", total |-> 0, used |-> 0, status |-> "normal"]
Volumes ==
    {[name |-> "V1", total |-> 100, used |-> u,
      status |-> IF u >= SpaceCritical THEN "degraded" ELSE "normal"] :
        u \in UsagePercents}
    \cup {EmptyVolume}

\* Feedback on the usage alerts, with the volume as context: false_positive
\* or useful on storage_high, false_positive on storage_warning.
RatingInputs ==
    {[alert_type |-> "storage_high", kind |-> k, context |-> {<<"volume", "V1">>}] :
        k \in {"false_positive", "useful"}}
    \cup {[alert_type |-> "storage_warning", kind |-> "false_positive",
           context |-> {<<"volume", "V1">>}]}

\* What check() leaves: the except branch's item after the API raised, or
\* what the analysis of the volume left.
StorageTried(api, v) ==
    IF api # None
    THEN Analysed(TheStore,
                  add_feedback(learner_feedback, LearnerName, HIGH,
                               ErrorPrefix(LearnerName, 1) \o api[1]))
    ELSE StorageAgent_analyze_storage(TheStore, learner_feedback, sensitivity,
                                      LearnerName, v, now)

\* check() returns get_feedback().
StorageReturns(r, checked, api, v) ==
    /\ Becomes(r, checked.buf, sensitivity)
    /\ last' = Some([op |-> "check", st |-> r.st, api |-> api, volume |-> v,
                     returned |-> checked.value,
                     patterns_before |-> patterns,
                     feedback_before |-> user_feedback])

StorageTriedReturns(r, api, v) == StorageReturns(r, DomainCheckEnd(r.buf), api, v)

\* StorageAgent.check(): get_storage_info() raises, or returns one volume
\* that is analysed; check() returns get_feedback().
StorageCheck(api, v) ==
    /\ proc = "up"
    /\ Len(observations) < 2 * MaxChecks
    /\ OccurrencesRoom
    /\ StorageTriedReturns(StorageTried(api, v), api, v)
    /\ UNCHANGED <<now, fp_count, recorded>>
    /\ UNCHANGED RunVars

(***************************************************************************)
(* The thresholds the other agents learn: from a baseline (its std_dev     *)
(* field holds the variance here) and the rate of false positives.         *)
(***************************************************************************)
\* int(x) of a rational: towards zero.
Trunc(r) == IF r[1] >= 0 THEN r[1] \div r[2] ELSE -((-r[1]) \div r[2])

\* int(n * 1.5) of a non-negative int n.
HalfMore(n) == (3 * n) \div 2

\* int(mean + k * sqrt(variance)), mean >= 0: the greatest j with
\* j <= mean or (j - mean)^2 <= k^2 * variance.
RootCap == 600
TruncPlusRoots(mean, k, variance) ==
    LET Fits(j) ==
            \/ ~RatLess(mean, Rat(j, 1))
            \/ ~RatLess(RatMul(Rat(k * k, 1), variance),
                        RatMul(RatSub(Rat(j, 1), mean), RatSub(Rat(j, 1), mean)))
    IN CHOOSE j \in Trunc(mean)..RootCap : Fits(j) /\ ~Fits(j + 1)

FailedLoginCritical == 50
FailedLoginWarning == 10

\* Learned thresholds that false positives do not move.
SecurityAgent_thresholds_unraised(s, name) ==
    LET b == get_baseline(s, name, "failed_logins_24h")
        learned == b # None /\ b[1].sample_count >= 10
    IN [critical |-> IF learned
                     THEN Max(20, TruncPlusRoots(b[1].mean, 4, b[1].std_dev))
                     ELSE FailedLoginCritical,
        warning |-> IF learned
                    THEN Max(10, TruncPlusRoots(b[1].mean, 2, b[1].std_dev))
                    ELSE FailedLoginWarning]

\* SecurityAgent._get_adjusted_thresholds
SecurityAgent_get_adjusted_thresholds(s, name) ==
    LET t == SecurityAgent_thresholds_unraised(s, name)
    IN IF RatLess(Rat(4, 10), get_false_positive_rate(s, name, "login_failed_warning"))
       THEN [t EXCEPT !.warning = HalfMore(@)]
       ELSE t

BackupCriticalDays == 7
BackupWarningDays == 3

\* BackupAgent._get_adjusted_thresholds
BackupAgent_get_adjusted_thresholds(s, name, task_name) ==
    LET b == get_baseline(s, name, "hours_since_backup_" \o task_name)
        typical_interval_days == RatDivInt(b[1].mean, 24)
        learned_warning == Trunc(RatMul(typical_interval_days, Rat(3, 2)))
        learned_critical == Trunc(RatMul(typical_interval_days, Rat(3, 1)))
    IN IF b # None /\ b[1].sample_count >= 5
          /\ RatLess(Rat(0, 1), typical_interval_days)
       THEN [critical_days |-> IF 2 <= learned_critical /\ learned_critical <= 30
                               THEN learned_critical ELSE BackupCriticalDays,
             warning_days |-> IF 1 <= learned_warning /\ learned_warning <= 14
                              THEN learned_warning ELSE BackupWarningDays]
       ELSE [critical_days |-> BackupCriticalDays, warning_days |-> BackupWarningDays]

DaysWithoutUpdateWarning == 30
DaysWithoutUpdateCritical == 90

\* UpdatesAgent._get_adjusted_thresholds
UpdatesAgent_get_adjusted_thresholds(s, name) ==
    LET b == get_baseline(s, name, "days_since_update")
        frequent == b # None /\ b[1].sample_count >= 5
                    /\ RatLess(b[1].mean, Rat(14, 1))
        t == IF frequent
             THEN [warning_days |-> Max(14, Trunc(RatMul(b[1].mean, Rat(2, 1)))),
                   critical_days |-> Max(30, Trunc(RatMul(b[1].mean, Rat(4, 1))))]
             ELSE [warning_days |-> DaysWithoutUpdateWarning,
                   critical_days |-> DaysWithoutUpdateCritical]
    IN IF RatLess(Rat(5, 10), get_false_positive_rate(s, name, "update_reminder"))
       THEN [t EXCEPT !.warning_days = HalfMore(@)]
       ELSE t

TempCritical == 60
TempWarning == 50
TempLowWarning == 15

\* DisksAgent._get_temp_thresholds
DisksAgent_get_temp_thresholds(s, name, disk_name) ==
    LET b == get_baseline(s, name, "temp_" \o disk_name)
        learned == b # None /\ b[1].sample_count >= 20
        normal_temp == b[1].mean
        hot == learned /\ RatLess(Rat(40, 1), normal_temp)
        warm == learned /\ RatLess(Rat(30, 1), normal_temp)
    IN [critical |-> IF hot THEN Max(60, Trunc(RatAdd(normal_temp, Rat(15, 1))))
                     ELSE TempCritical,
        warning |-> IF hot THEN Max(50, Trunc(RatAdd(normal_temp, Rat(10, 1))))
                    ELSE TempWarning,
        low |-> IF warm THEN Max(15, Trunc(RatSub(normal_temp, Rat(15, 1))))
                ELSE TempLowWarning]

\* The thresholds of an agent, for the task T1 and the disk D1.
ThresholdsOf(s, agent) ==
    CASE agent = "storage" -> StorageAgent_get_adjusted_thresholds(s, agent)
      [] agent = "security" -> SecurityAgent_get_adjusted_thresholds(s, agent)
      [] agent = "backup" -> BackupAgent_get_adjusted_thresholds(s, agent, "T1")
      [] agent = "updates" -> UpdatesAgent_get_adjusted_thresholds(s, agent)
      [] agent = "disks" -> DisksAgent_get_temp_thresholds(s, agent, "D1")

\* The agents that learn thresholds, the metric each learns from, the values
\* it observes, and the alert types its false positives are counted on.
ThresholdAgents == {"storage", "security", "backup", "updates", "disks"}

ThresholdMetric(agent) ==
    CASE agent = "security" -> "failed_logins_24h"
      [] agent = "backup" -> "hours_since_backup_T1"
      [] agent = "updates" -> "days_since_update"
      [] agent = "disks" -> "temp_D1"
      [] OTHER -> "usage_percent_V1"

ThresholdValues(agent) ==
    CASE agent = "security" -> {0, 30, 100}
      [] agent = "backup" -> {24, 240, 480}
      [] agent = "updates" -> {5, 13, 20}
      [] agent = "disks" -> {25, 35, 45, 70}
      [] OTHER -> {}

ThresholdAlerts(agent) ==
    CASE agent = "security" -> {"login_failed_warning"}
      [] agent = "updates" -> {"update_reminder"}
      [] agent = "storage" -> {"storage_warning", "storage_high"}
      [] OTHER -> {}

\* One agent at a time: what the store holds is this agent's.
OnlyOf(agent) ==
    /\ \A i \in 1..Len(observations) : observations[i].agent = agent
    /\ \A i \in 1..Len(user_feedback) : user_feedback[i].agent = agent

\* The agent observes its metric: any value first, and from the third
\* observation on the value it observed last.
Learn(agent, v) ==
    /\ Len(observations) < MaxLearnt
    /\ OnlyOf(agent)
    /\ Len(observations) >= 2 => observations[Len(observations)].value = Number(v)
    /\ Observe(agent, ThresholdMetric(agent), Number(v))

\* receive_user_feedback of the agent on one of its alert types.
Rate(agent, alert_type, kind) ==
    /\ proc = "up"
    /\ Len(user_feedback) < MaxRated
    /\ OnlyOf(agent)
    /\ LET r == receive_user_feedback(TheStore, sensitivity, agent, alert_type,
                                      kind, {}, now, NoFault)
       IN /\ Becomes(r, learner_feedback, r.sens)
          /\ last' = Some([op |-> "receive_user_feedback", st |-> r.st,
                           agent |-> agent, alert_type |-> alert_type,
                           kind |-> kind])
    /\ UNCHANGED <<now, fp_count, recorded>>
    /\ UNCHANGED RunVars

\* The agent computes its thresholds.
AskThresholds(agent) ==
    /\ proc = "up"
    /\ OnlyOf(agent)
    /\ last' = Some([op |-> "get_adjusted_thresholds", st |-> "ok", agent |-> agent,
                     ret |-> ThresholdsOf(TheStore, agent)])
    /\ UNCHANGED StoreVars
    /\ UNCHANGED RunVars

(***************************************************************************)
(* Trends: a metric observed over the days, and its trend asked for.       *)
(***************************************************************************)
\* Values that rise by 10 percent, by more, fall, start from zero or lie
\* below zero (hours_since_backup of a backup stamped after the NAS' clock),
\* and a value that is no number.
TrendValues ==
    {Number(-10), Number(-5), Number(0), Number(10), Number(11), Number(20), Text}

TrendMetric == "hours_since_backup_T1"

\* The windows asked for: the default week, and the month the store retains.
TrendDays == {7, 30}

\* MemoryStore.get_trend(agent, metric, days)
AskTrend(agent, metric, days) ==
    /\ proc = "up"
    /\ last' = Some([op |-> "get_trend", st |-> "ok", agent |-> agent,
                     metric |-> metric, days |-> days,
                     ret |-> get_trend(TheStore, agent, metric, days, now)])
    /\ UNCHANGED StoreVars
    /\ UNCHANGED RunVars

(***************************************************************************)
(* Specifications.                                                         *)
(***************************************************************************)
\* No store and no process: the store's part of a state of the health check.
StoreDown ==
    /\ proc = "down" /\ now = 0
    /\ observations = <<>> /\ baselines = <<>>
    /\ patterns = <<>> /\ user_feedback = <<>>
    /\ disk = EmptyDisk
    /\ learner_feedback = <<>>
    /\ sensitivity = <<>>
    /\ fp_count = 0 /\ pristine = TRUE
    /\ recorded = <<>>

\* No health check under way: the orchestrator's part of a state of the store.
RunIdle ==
    /\ agents = Fresh(LearnerName)
    /\ phase = "idle"
    /\ pc = Fresh("done")
    /\ feedback_buf = Fresh(<<>>)
    /\ task_result = Fresh(None)
    /\ results = <<>>
    /\ report = <<>>
    /\ min_priority = LOW
    /\ store_failed = Fresh(FALSE)

\* One health check after the other, over any registration of the agents.
InitRun ==
    /\ agents \in [AgentIds -> AgentNames]
    /\ phase = "idle"
    /\ pc = Fresh("done")
    /\ feedback_buf = Fresh(<<>>)
    /\ task_result = Fresh(None)
    /\ results = <<>>
    /\ report = <<>>
    /\ min_priority = LOW
    /\ store_failed = Fresh(FALSE)
    /\ StoreDown
    /\ last = None

NextRun ==
    \/ RunAllAgents
    \/ \E i \in AgentIds : DomainStart(i)
    \/ \E i \in AgentIds : FakeRaises(i)
    \/ \E i \in AgentIds : FakeReturns(i)
    \/ \E i \in AgentIds : UpdatesFirstCall(i)
    \/ \E i \in AgentIds : UpdatesFirstCallRaises(i)
    \/ \E i \in AgentIds : SecurityFirstTry(i)
    \/ \E i \in AgentIds : LastTry(i)
    \/ Gather
    \/ Aggregate

SpecRun == InitRun /\ [][NextRun]_vars

\* The learning side of the store: feedback, patterns and alerts, on an
\* empty directory.  The observations and baselines files stay absent here;
\* SpecObs is about them.
Init == RunIdle /\ StoreDown /\ last = None

Next ==
    \/ Construct
    \/ Exit
    \/ \E a \in AlertTypes, k \in FeedbackKinds, c \in FeedbackContexts,
          f \in Faults : ReceiveUserFeedback(a, k, c, f)
    \/ \E a \in AlertTypes, c \in AlertContexts, f \in Faults :
          AddFeedbackWithContext(a, c, f)
    \/ GetFeedback
    \/ \E p \in ManualPatterns(now), f \in Faults : AddPattern(p, f)
    \/ \E a \in AlertTypes, f \in Faults :
          \E n \in {SuppressName(a), "unknown"} :
             TriggerPattern(n, f)
    \/ \E fname \in {"patterns", "feedback"}, c \in NotJsonLists :
          CorruptFile(fname, c)
    \/ \E fname \in {"patterns", "feedback"} : \E dmg \in RecordDamages(fname) :
          CorruptRecord(fname, dmg)
    \/ \E fname \in {"patterns", "feedback"} : DeleteFile(fname)

Spec == Init /\ [][Next]_vars

\* The observing side of the store: observations and baselines over time.
NextObs ==
    \/ Construct
    \/ Exit
    \/ \E m \in ObsMetrics, v \in ObsValues, f \in Faults :
          RecordObservation(m, v, f)
    \/ Tick
    \/ \E fname \in {"observations", "baselines"}, c \in NotJsonLists :
          CorruptFile(fname, c)
    \/ \E fname \in {"observations", "baselines"} :
          \E dmg \in RecordDamages(fname) : CorruptRecord(fname, dmg)
    \/ \E fname \in {"observations", "baselines"} : DeleteFile(fname)

SpecObs == Init /\ [][NextObs]_vars

\* The tuning side of a learning agent: feedback of every kind, anomaly
\* checks, and the process ending and starting again.
NextTune ==
    \/ Construct
    \/ Exit
    \/ \E given \in TuningInputs : Tune(GrowthAlert, given)
    \/ \E v \in {20} : AskAnomaly(GrowthMetric, v)

SpecTune == Init /\ [][NextTune]_vars

\* One metric's series growing past the ten samples the anomaly test waits
\* for, across restarts.
NextSeries ==
    \/ Construct
    \/ Exit
    \/ \E v \in SeriesValues :
          Len(recorded) < MaxSeries /\ Observe(LearnerName, GrowthMetric, Number(v))
    \/ \E v \in SeriesValues, k \in SeriesSensitivities :
          IsAnomaly(LearnerName, GrowthMetric, v, k)

SpecSeries == Init /\ [][NextSeries]_vars

\* Several pairs of agent and metric, numeric and other values, across
\* restarts.
NextKeys ==
    \/ Construct
    \/ Exit
    \/ \E p \in KeyPairs, v \in KeyValues :
          Len(recorded) < MaxKeyObs /\ Observe(p.agent, p.metric, v)

SpecKeys == Init /\ [][NextKeys]_vars

\* Patterns of any kind in the store, and alerts asked about, across
\* restarts.
NextPatterns ==
    \/ Construct
    \/ Exit
    \/ \E p \in GivenPatterns(now) : PutPattern(p)
    \/ \E a \in {HighAlert}, c \in AskedContexts, w \in WriteWays :
          AskSuppress(a, c, w)

SpecPatterns == Init /\ [][NextPatterns]_vars

\* The calls that count a pattern's occurrences: add_pattern (adding or
\* replacing), trigger_pattern and record_feedback, across restarts.
NextCounts ==
    \/ Construct
    \/ Exit
    \/ \E p \in CountedPatterns(now) : PutPattern(p)
    \/ TriggerPattern(SuppressName(HighAlert), NoFault)
    \/ \E given \in LearningInputs :
          Len(user_feedback) < MaxLearning /\ Tune(HighAlert, given)

SpecCounts == Init /\ [][NextCounts]_vars

\* Observations of one metric recorded over a month and a half, across
\* restarts, every write going well.
NextRetention ==
    \/ Construct
    \/ Exit
    \/ Tick
    \/ \E v \in KeyValues :
          Len(recorded) < MaxKept /\ Observe(LearnerName, GrowthMetric, v)

SpecRetention == Init /\ [][NextRetention]_vars

\* A metric observed over the days, across restarts, and its trend.
NextTrend ==
    \/ Construct
    \/ Exit
    \/ Tick
    \/ \E v \in TrendValues :
          Len(recorded) < MaxTrend /\ Observe("backup", TrendMetric, v)
    \/ \E d \in TrendDays : AskTrend("backup", TrendMetric, d)

SpecTrend == Init /\ [][NextTrend]_vars

\* The storage agent's check after feedback on its usage alerts.
NextStorage ==
    \/ Construct
    \/ \E g \in RatingInputs :
          Len(user_feedback) < MaxRatings
            /\ Tune(g.alert_type, [kind |-> g.kind, context |-> g.context])
    \/ \E v \in Volumes : StorageCheck(None, v)
    \/ \E e \in ApiErrors : StorageCheck(Some(e), EmptyVolume)

SpecStorage == Init /\ [][NextStorage]_vars

\* One health check after the other on the same agent objects: fake agents
\* and storage agents, a fake agent's check() raising at once or after it
\* added items.
InitBuffer ==
    /\ agents \in [AgentIds -> {FakeName, "storage"}]
    /\ phase = "idle"
    /\ pc = Fresh("done")
    /\ feedback_buf = Fresh(<<>>)
    /\ task_result = Fresh(None)
    /\ results = <<>>
    /\ report = <<>>
    /\ min_priority = LOW
    /\ store_failed = Fresh(FALSE)
    /\ StoreDown
    /\ last = None

NextBuffer ==
    \/ RunAllAgents
    \/ \E i \in AgentIds : DomainStart(i)
    \/ \E i \in AgentIds : FakeRaises(i)
    \/ \E i \in AgentIds : FakeReturns(i)
    \/ \E i \in AgentIds : FakeRaisesLate(i)
    \/ \E i \in AgentIds : LastTry(i)
    \/ Gather
    \/ Aggregate

SpecBuffer == InitBuffer /\ [][NextBuffer]_vars

\* An agent learns its metric, is told of false positives, and computes its
\* thresholds.
NextThresholds ==
    \/ Construct
    \/ \E a \in ThresholdAgents : \E v \in ThresholdValues(a) : Learn(a, v)
    \/ \E a \in ThresholdAgents : \E t \in ThresholdAlerts(a) :
          \E k \in {"false_positive", "useful"} : Rate(a, t, k)
    \/ \E a \in ThresholdAgents : AskThresholds(a)

SpecThresholds == Init /\ [][NextThresholds]_vars

\* One health check of learning agents that share a store, every write
\* going well.
InitConc ==
    /\ agents \in [AgentIds -> ConcAgents]
    /\ phase = "idle"
    /\ pc = Fresh("done")
    /\ feedback_buf = Fresh(<<>>)
    /\ task_result = Fresh(None)
    /\ results = <<>>
    /\ report = <<>>
    /\ min_priority = LOW
    /\ store_failed = Fresh(FALSE)
    /\ StoreDown
    /\ last = None

NextConc ==
    \/ Construct
    \/ RunAllAgents /\ proc = "up" /\ phase = "idle"
    \/ \E i \in AgentIds : DomainStart(i)
    \/ \E i \in AgentIds, v \in ConcValues :
          \E api \in {None} \cup {Some(e) : e \in ApiErrors} :
             ObserveThenAwait(i, api, v)
    \/ \E i \in AgentIds, v \in ConcValues :
          \E api \in {None} \cup {Some(e) : e \in ApiErrors} :
             ObserveThenReturn(i, api, v)
    \/ Gather

SpecConc == InitConc /\ [][NextConc]_vars

\* aggregate_feedback as a function: any two AgentResults, any min_priority.
AggNames == <<"storage", "backup">>
AggErrors == {None, Some(""), Some("boom")}

AggResultsOf(name) ==
    {AgentResult(name, fb, e) :
        fb \in SeqsUpTo({Feedback(p, name, "finding") : p \in Priorities}, MaxFb),
        e \in AggErrors}

InitAgg ==
    /\ agents = Fresh(FakeName)
    /\ phase = "gathered"
    /\ pc = Fresh("done")
    /\ feedback_buf = Fresh(<<>>)
    /\ task_result = Fresh(None)
    /\ results \in {<<a, b>> : a \in AggResultsOf(AggNames[1]),
                              b \in AggResultsOf(AggNames[2])}
    /\ report = <<>>
    /\ min_priority = LOW
    /\ store_failed = Fresh(FALSE)
    /\ StoreDown
    /\ last = None

\* SynologyGuru.aggregate_feedback(results, min_priority)
AggregateFeedback(minp) ==
    /\ phase = "gathered"
    /\ min_priority' = minp
    /\ report' = aggregate_feedback(results, minp)
    /\ phase' = "reported"
    /\ last' = None
    /\ UNCHANGED <<agents, pc, feedback_buf, task_result, results, store_failed>>
    /\ UNCHANGED StoreVars

NextAgg == \E minp \in Priorities : AggregateFeedback(minp)

SpecAgg == InitAgg /\ [][NextAgg]_vars

(***************************************************************************)
(* The claims.                                                             *)
(***************************************************************************)
\* The task that finished in the last step of a health check.
Done == last[1].agent
DoneResult == task_result[Done][1]

\* C1: for every registered domain agent, the AgentResult run_all produces
\* carries exactly the feedback items the agent emitted during its check():
\* none is lost between the agent and the orchestrator.
C1_EmittedFeedbackReachesResult ==
    (last # None /\ agents[Done] \in DomainAgents)
        => DoneResult.feedback = last[1].emitted

\* C2: the output of aggregate is sorted: whenever item a precedes item b,
\* a.priority <= b.priority, and among items of equal priority the category
\* is ascending.
C2_AggregateSorted ==
    phase = "reported" =>
        \A i, j \in 1..Len(report) :
            i < j =>
                \/ report[i].priority < report[j].priority
                \/ /\ report[i].priority = report[j].priority
                   /\ Rank(report[i].category) <= Rank(report[j].category)

\* One critical item, one agent error and one low item come out in that order.
C2_Witness ==
    /\ phase = "reported"
    /\ Len(report) = 3
    /\ report[1].priority = CRITICAL
    /\ report[2] = Feedback(HIGH, "storage", "Agent error: boom")
    /\ report[3].priority = LOW

\* C3: every agent whose check() raises yields an AgentResult with empty
\* feedback and the exception message as error, and aggregate turns it into
\* exactly one high-priority feedback with category = agent_name and message
\* "Agent error: <error>", whatever the message.
C3_RaisedBecomesOneHighFeedback ==
    (last # None /\ last[1].raised # None) =>
        /\ DoneResult.feedback = <<>>
        /\ DoneResult.error = last[1].raised
        /\ aggregate_feedback(<<DoneResult>>, LOW)
             = <<Feedback(HIGH, agents[Done], "Agent error: " \o last[1].raised[1])>>

\* C4: run_all returns only after every task has finished, with exactly one
\* AgentResult per registered agent, in the agents' order; a task that raised
\* takes no other task's result away, so aggregate never sees partial results.
C4_GatherWaitsForAll ==
    phase \in {"gathered", "reported"} =>
        /\ Len(results) = NumAgents
        /\ \A i \in AgentIds :
              /\ pc[i] = "done"
              /\ task_result[i] = Some(results[i])
              /\ results[i].agent_name = agents[i]

\* run_all has returned, one agent raised and another delivered feedback.
C4_Witness ==
    /\ phase = "gathered"
    /\ \E i, j \in AgentIds :
          /\ results[i].error # None
          /\ results[j].error = None /\ results[j].feedback # <<>>

\* C10: a failure to write a store file inside a domain agent's check()
\* reaches the orchestrator as an agent error: it is not absorbed by the agent.
C10_StoreFailureIsAgentError ==
    (last # None /\ last[1].store_failed) => DoneResult.error # None
\* The store operation the last step made.
Op == last[1].op
Returned == last[1].st = "ok"

Pruned(obs, t) == SelectSeq(obs, LAMBDA o : o.timestamp.t > t - RetentionDays)

\* C5: for any store state reached from the empty store by record_observation,
\* add_pattern, record_feedback and trigger_pattern calls, constructing a new
\* store on the same directory yields the same baselines, the same patterns
\* (confidence and occurrences after reinforcing feedback included), the same
\* feedback entries (timestamps reloaded as instants) and the same
\* observations up to 30-day pruning.
C5_ReloadYieldsSameStore ==
    (proc = "up" /\ pristine) =>
        LET r == load_all(disk, now)
        IN /\ r.exc = None
           /\ r.s.baselines = baselines
           /\ r.s.patterns = patterns
           /\ r.s.user_feedback = user_feedback
           /\ Pruned(r.s.observations, now) = Pruned(observations, now)

\* C6: after false_positive feedback with context C, a later alert of that
\* type whose context contains C is suppressed if and only if at least three
\* false_positive feedbacks have been given (confidence 0.5, 0.6, 0.7): not
\* after the first or second, and from the third onward always.
C6_SuppressedFromThirdFeedback ==
    (/\ last # None /\ Op = "add_feedback_with_context" /\ Returned
     /\ pristine
     /\ fp_count >= 1
     /\ \A c \in FeedbackContexts : c \subseteq last[1].arg.context)
        => (last[1].arg.suppressed <=> fp_count >= 3)

\* A pattern of the agent suppresses an alert with this context.
SuppressedBy(context) ==
    \E i \in 1..Len(patterns) :
        /\ patterns[i].v.agent = LearnerName
        /\ patterns[i].v.action = "ignore"
        /\ patterns[i].v.confidence >= SuppressConfidence
        /\ patterns[i].v.condition \subseteq context

\* The one entry add_feedback_with_context owes for an alert.
Owed(context) ==
    IF SuppressedBy(context)
    THEN Feedback(INFO, LearnerName, "[Suppressed] " \o AlertMessage)
    ELSE Feedback(HIGH, LearnerName, AlertMessage)

\* C7 as stated: whenever add_feedback_with_context is called, exactly one
\* entry is appended to the agent's feedback: info and "[Suppressed] " +
\* message when a pattern suppresses the alert, the original priority and
\* message when none does; the alert is never dropped or duplicated.
C7_EveryCallAppendsOne ==
    (last # None /\ Op = "add_feedback_with_context" /\ last[1].st # "died")
        => learner_feedback = Append(last[1].before, Owed(last[1].arg.context))

\* C7 as amended: whenever add_feedback_with_context is called and returns,
\* exactly that one entry is appended; when saving the triggered pattern
\* fails, the call raises and nothing is appended.
C7_ReturningCallAppendsOne ==
    (last # None /\ Op = "add_feedback_with_context") =>
        /\ Returned =>
              learner_feedback = Append(last[1].before, Owed(last[1].arg.context))
        /\ last[1].st = "OSError" =>
              /\ learner_feedback = last[1].before
              /\ SuppressedBy(last[1].arg.context)

\* A call returned after a pattern suppressed the alert.
C7_Witness ==
    /\ last # None /\ Op = "add_feedback_with_context" /\ Returned
    /\ learner_feedback # <<>>
    /\ learner_feedback[Len(learner_feedback)]
         = Feedback(INFO, LearnerName, "[Suppressed] " \o AlertMessage)

\* A file a store cannot make sense of: no JSON list, or a record with a
\* missing or an extra key, or with a timestamp that is no ISO date.
CorruptRecordIn(fname, d) ==
    \/ DOMAIN d # FullKeys(fname)
    \/ ~Parsable(d[TimestampField(fname)])

Corrupt(fname) ==
    \/ disk[fname].kind \notin {"absent", "list"}
    \/ \E i \in 1..Len(disk[fname].items) : CorruptRecordIn(fname, disk[fname].items[i])

Collection(fname) ==
    CASE fname = "observations" -> observations
      [] fname = "baselines" -> baselines
      [] fname = "patterns" -> patterns
      [] OTHER -> user_feedback

\* C8: if a store file is corrupt or unreadable when a store is constructed,
\* construction succeeds, that collection is loaded as empty and the other
\* collections are loaded normally.
C8_CorruptFileLoadsEmpty ==
    (last # None /\ Op = "construct") =>
        /\ proc = "up"
        /\ \A fname \in FileNames :
              IF Corrupt(fname)
              THEN Collection(fname) = <<>>
              ELSE Collection(fname) = load(fname, disk[fname], now).value

\* C9: a process termination during a record_observation, add_pattern,
\* trigger_pattern or record_feedback call never leaves a store file
\* unreadable: each file holds what it held before the interrupted write or
\* what the write was to put there, never an empty or truncated collection.
C9_CrashLeavesOldOrNew ==
    (last # None /\ Op # "construct" /\ last[1].st = "died") =>
        \A fname \in FileNames :
            \/ disk[fname] = last[1].disk_before[fname]
            \/ disk[fname] = last[1].disk_after[fname]

(***************************************************************************)
(* The statistics of the values recorded under a baseline's key.           *)
(***************************************************************************)
KeyOf(c) == Key(c.agent, c.metric)

\* The numeric values recorded under key k, in call order.
SamplesOf(calls, k) ==
    LET sel == SelectSeq(calls, LAMBDA c : IsNumber(c.value) /\ KeyOf(c) = k)
    IN [j \in 1..Len(sel) |-> sel[j].value.n]

RECURSIVE SumOf(_)
SumOf(vs) == IF vs = <<>> THEN 0 ELSE Head(vs) + SumOf(Tail(vs))

Squares(vs) == [j \in 1..Len(vs) |-> vs[j] * vs[j]]

Values(vs) == {vs[j] : j \in 1..Len(vs)}

ArithmeticMean(vs) == Rat(SumOf(vs), Len(vs))

\* The population variance (divisor n): (n * sum(v^2) - sum(v)^2) / n^2.
PopulationVariance(vs) ==
    Rat(Len(vs) * SumOf(Squares(vs)) - SumOf(vs) * SumOf(vs), Len(vs) * Len(vs))

\* The variance with divisor n - 1.
SampleVariance(vs) ==
    IF Len(vs) < 2 THEN Rat(0, 1)
    ELSE Rat(Len(vs) * SumOf(Squares(vs)) - SumOf(vs) * SumOf(vs),
             Len(vs) * (Len(vs) - 1))

\* b summarises the samples vs.
Summarises(b, vs) ==
    /\ b.sample_count = Len(vs)
    /\ b.mean = ArithmeticMean(vs)
    /\ b.std_dev = PopulationVariance(vs)
    /\ b.min_value = Rat(CHOOSE v \in Values(vs) : \A u \in Values(vs) : v <= u, 1)
    /\ b.max_value = Rat(CHOOSE v \in Values(vs) : \A u \in Values(vs) : u <= v, 1)

\* The keys that have numeric samples among the calls.
SampledKeys(calls) ==
    {KeyOf(calls[j]) : j \in {h \in 1..Len(calls) : IsNumber(calls[h].value)}}

\* The store the calls leave when made one after the other on an empty one.
RECURSIVE Serially(_, _, _)
Serially(s, calls, t) ==
    IF calls = <<>> THEN s
    ELSE Serially(observe(s, Head(calls).agent, Head(calls).metric,
                          Head(calls).value, {}, t, NoFault).s,
                  Tail(calls), t)

\* C11: with the agents of one health check recording observations through
\* one shared store, the final baselines are those of a serial order of the
\* record_observation calls: every key's baseline holds the cumulative
\* statistics of all the calls made on it, whichever tasks made them, and no
\* observation and no baseline update is lost.
C11_BaselinesAsSerialOrder ==
    phase = "gathered" =>
        /\ baselines = Serially(StoreOf(<<>>, <<>>, <<>>, <<>>, EmptyDisk),
                                recorded, now).baselines
        /\ \A k \in SampledKeys(recorded) :
              /\ DictHas(baselines, k)
              /\ Summarises(DictGet(baselines, k)[1], SamplesOf(recorded, k))
        /\ Len(baselines) = Cardinality(SampledKeys(recorded))
        /\ [j \in 1..Len(observations) |->
               [agent |-> observations[j].agent, metric |-> observations[j].metric,
                value |-> observations[j].value,
                t |-> observations[j].timestamp.t]] = recorded

\* Two tasks of the same agent recorded different values under one key.
C11_Witness ==
    /\ phase = "gathered"
    /\ agents[1] = agents[2]
    /\ \E j \in 1..Len(baselines) :
          /\ baselines[j].v.sample_count >= 2
          /\ baselines[j].v.std_dev # Rat(0, 1)

\* C12: LearningAgent.is_anomaly(metric, value) applies the sensitivity that
\* receive_user_feedback recorded for the alert type the check produces
\* (raised by too_sensitive, lowered by too_late) when one is set, and 2.0
\* otherwise.
C12_AnomalyCheckUsesOverride ==
    (last # None /\ Op = "is_anomaly") =>
        last[1].sensitivity
          = DictGetOr(sensitivity, AlertTypeOf(last[1].metric), DefaultSensitivity)

\* The sensitivity an alert type has once one kind of feedback was received.
Tuned(before, kind) ==
    CASE kind = "too_sensitive" -> Min(MaxSensitivity, before + SensitivityStep)
      [] kind = "too_late" -> Max(MinSensitivity, before - SensitivityStep)
      [] OTHER -> before

\* C13: after any sequence of receive_user_feedback calls every sensitivity
\* lies in [1.0, 4.0]: each too_sensitive raises the alert type's by 0.5 up
\* to 4.0, each too_late lowers it by 0.5 down to 1.0, from 2.0 when unset,
\* and useful and false_positive feedback leave it unchanged.
C13_SensitivityTunedWithinBounds ==
    /\ \A j \in 1..Len(sensitivity) :
          MinSensitivity <= sensitivity[j].v /\ sensitivity[j].v <= MaxSensitivity
    /\ (last # None /\ Op = "receive_user_feedback") =>
          DictGetOr(sensitivity, last[1].alert_type, DefaultSensitivity)
            = Tuned(DictGetOr(last[1].sensitivity_before, last[1].alert_type,
                              DefaultSensitivity),
                    last[1].kind)

\* The patterns but the one under key k.
Others(ps, k) == SelectSeq(ps, LAMBDA e : e.k # k)

\* C20: record_feedback with feedback = false_positive creates the pattern
\* (agent, "suppress_" + alert_type) with action ignore, confidence 0.5,
\* occurrences 1 and the feedback's context as condition when none exists;
\* when one exists it raises its confidence by 0.1 (at most 1.0), adds one
\* to its occurrences and keeps its condition.  Feedback of kind useful,
\* too_late or too_sensitive leaves every pattern unchanged.
C20_FalsePositiveLearnsPattern ==
    (last # None /\ Op = "receive_user_feedback") =>
        LET k == Key(LearnerName, SuppressName(last[1].alert_type))
            old == DictGet(last[1].patterns_before, k)
            new == DictGet(patterns, k)
        IN IF last[1].kind # "false_positive"
           THEN patterns = last[1].patterns_before
           ELSE /\ Others(patterns, k) = Others(last[1].patterns_before, k)
                /\ new # None
                /\ IF old = None
                   THEN /\ new[1].agent = LearnerName
                        /\ new[1].name = SuppressName(last[1].alert_type)
                        /\ new[1].action = "ignore"
                        /\ new[1].confidence = InitialConfidence
                        /\ new[1].occurrences = 1
                        /\ new[1].condition = last[1].context
                   ELSE new[1] = [old[1] EXCEPT
                                    !.confidence = Min(FullConfidence, @ + ConfidenceStep),
                                    !.occurrences = @ + 1]

\* C14: Store.is_anomaly returns false for every value and every sensitivity
\* whenever no baseline exists for (agent, metric) or its sample_count is
\* below 10; only from the tenth numeric sample onward can it return true.
C14_NoAnomalyBelowTenSamples ==
    (last # None /\ Op = "is_anomaly") =>
        LET b == DictGet(baselines, Key(last[1].agent, last[1].metric))
        IN /\ (b = None \/ b[1].sample_count < 10) => ~last[1].ret
           /\ last[1].ret =>
                 Len(SamplesOf(recorded, Key(last[1].agent, last[1].metric))) >= 10

\* The tenth sample is in, and a value is found anomalous.
C14_Witness ==
    /\ last # None /\ Op = "is_anomaly" /\ last[1].ret
    /\ DictGet(baselines, Key(last[1].agent, last[1].metric))[1].sample_count = 10

\* C15: after n numeric observations recorded for one key, in any order,
\* the baseline's sample_count is n, its mean is their arithmetic mean, its
\* std_dev is their population standard deviation (divisor n, not n - 1),
\* and min_value and max_value are their minimum and maximum.
C15_BaselineIsBatchStatistics ==
    proc = "up" =>
        \A k \in SampledKeys(recorded) :
            /\ DictHas(baselines, k)
            /\ Summarises(DictGet(baselines, k)[1], SamplesOf(recorded, k))

\* Seven samples of two values, reloaded by a new store: the statistics
\* differ from those with divisor n - 1.
C15_Witness ==
    /\ proc = "up" /\ last # None /\ Op = "construct"
    /\ \E j \in 1..Len(baselines) :
          /\ baselines[j].v.sample_count = 7
          /\ baselines[j].v.min_value # baselines[j].v.max_value
          /\ baselines[j].v.std_dev
               # SampleVariance(SamplesOf(recorded, baselines[j].k))

AllEqual(vs) == \A i, j \in 1..Len(vs) : vs[i] = vs[j]

\* C16: in every reachable store state every baseline has sample_count >= 1
\* and min_value <= mean <= max_value, and its std_dev is 0 exactly when all
\* the samples recorded under its key are equal.
C16_BaselineInvariants ==
    proc = "up" =>
        \A j \in 1..Len(baselines) :
            LET b == baselines[j].v
            IN /\ b.sample_count >= 1
               /\ ~RatLess(b.mean, b.min_value)
               /\ ~RatLess(b.max_value, b.mean)
               /\ (b.std_dev = Rat(0, 1))
                    <=> AllEqual(SamplesOf(recorded, baselines[j].k))

\* A baseline of two different samples, beside one of a single sample.
C16_Witness ==
    /\ proc = "up"
    /\ \E i, j \in 1..Len(baselines) :
          /\ baselines[i].v.sample_count = 2
          /\ RatLess(baselines[i].v.min_value, baselines[i].v.mean)
          /\ RatLess(baselines[i].v.mean, baselines[i].v.max_value)
          /\ baselines[i].v.std_dev # Rat(0, 1)
          /\ baselines[j].v.sample_count = 1
          /\ baselines[j].v.std_dev = Rat(0, 1)

\* A numeric observation of this agent and this metric has been recorded.
NumericRecorded(p) ==
    \E j \in 1..Len(recorded) :
        /\ recorded[j].agent = p.agent /\ recorded[j].metric = p.metric
        /\ IsNumber(recorded[j].value)

\* C17: a baseline exists for the pair (agent, metric) exactly when a
\* numeric observation with that same agent and that same metric has been
\* recorded: a non-numeric observation creates no baseline, and recording an
\* observation for one pair never creates or changes the baseline of any
\* different pair, whatever the agent and metric strings.
C17_BaselinePerPair ==
    proc = "up" =>
        /\ \A p \in KeyPairs :
              (get_baseline(TheStore, p.agent, p.metric) # None) <=> NumericRecorded(p)
        /\ (last # None /\ Op = "record_observation") =>
              \A p \in KeyPairs :
                  (p.agent # last[1].agent \/ p.metric # last[1].metric) =>
                      get_baseline(TheStore, p.agent, p.metric)
                        = DictGet(last[1].baselines_before, Key(p.agent, p.metric))

(***************************************************************************)
(* API failures in the domain agents (SpecRun).                            *)
(***************************************************************************)
\* The try block an agent's check() ends with.
LastTryNo(name) == IF name = "security" THEN 2 ELSE 1

\* C18: when the external API call of a domain agent raises, the agent's
\* check() does not propagate the exception and adds exactly one feedback
\* item for the failing try block, of priority high, whose message describes
\* the retrieval failure; for every agent but the security agent this item is
\* all that check() returns.
C18_ApiErrorYieldsOneHighItem ==
    (last # None /\ last[1].api # None) =>
        LET r == last[1]
            name == agents[r.agent]
            item == Feedback(HIGH, name,
                             ErrorPrefix(name, LastTryNo(name)) \o r.api[1])
        IN /\ r.raised = None
           /\ task_result[r.agent][1].error = None
           /\ r.emitted = Append(r.before, item)
           /\ name # "security" => r.emitted = <<item>>

(***************************************************************************)
(* The filter of aggregate_feedback (SpecAgg).                             *)
(***************************************************************************)
\* How often item f occurs in the sequence items.
Occurrences(items, f) == Cardinality({j \in 1..Len(items) : items[j] = f})

\* The synthetic item of a result with a non-empty error.
SyntheticItem(r) == Feedback(HIGH, r.agent_name, "Agent error: " \o r.error[1])
HasSyntheticItem(r) == r.error # None /\ r.error[1] # ""

\* How often item f occurs among the inputs of an aggregation: in the agents'
\* feedback and as a synthetic agent-error item.
Offered(rs, f) ==
    Cardinality({<<i, k>> \in (1..Len(rs)) \X (1..MaxFb + 1) :
                    k <= Len(rs[i].feedback) /\ rs[i].feedback[k] = f})
      + Cardinality({i \in 1..Len(rs) :
                        HasSyntheticItem(rs[i]) /\ SyntheticItem(rs[i]) = f})

\* Every item that is offered to an aggregation or comes out of it.
ItemsOf(rs, out) ==
    {out[j] : j \in 1..Len(out)}
      \cup UNION {{r.feedback[k] : k \in 1..Len(r.feedback)} :
                     r \in {rs[i] : i \in 1..Len(rs)}}
      \cup {SyntheticItem(rs[i]) :
                i \in {j \in 1..Len(rs) : HasSyntheticItem(rs[j])}}

\* C19: aggregate(results, min_priority) returns exactly the flattened items
\* (the agents' feedback and the synthetic agent-error items) whose priority
\* is numerically <= min_priority, each once; with min_priority = low every
\* critical, high, medium and low item is kept and every info item removed.
C19_AggregateKeepsUpToMinPriority ==
    phase = "reported" =>
        /\ \A f \in ItemsOf(results, report) :
              Occurrences(report, f)
                = IF f.priority <= min_priority THEN Offered(results, f) ELSE 0
        /\ min_priority = LOW =>
              \A f \in ItemsOf(results, report) :
                 Occurrences(report, f)
                   = IF f.priority \in {CRITICAL, HIGH, MEDIUM, LOW}
                     THEN Offered(results, f) ELSE 0

\* With the default min_priority an agent error and a low item are kept and
\* an info item is removed.
C19_Witness ==
    /\ phase = "reported"
    /\ min_priority = LOW
    /\ results[1].error = Some("boom")
    /\ results[1].feedback = <<Feedback(LOW, "storage", "finding")>>
    /\ results[2].feedback = <<Feedback(INFO, "backup", "finding")>>
    /\ Len(report) = 2

(***************************************************************************)
(* Suppression by patterns (SpecPatterns).                                 *)
(***************************************************************************)
\* Pattern p of the agent is one that suppresses an alert with this context:
\* every key of its condition is in the context with the same value.
Suppresses(p, context) ==
    /\ p.agent = LearnerName
    /\ p.action = "ignore"
    /\ p.confidence >= SuppressConfidence
    /\ \A kv \in p.condition : kv \in context

\* The stored patterns (in the store's order) that suppress the context.
Matches(ps, context) == {i \in 1..Len(ps) : Suppresses(ps[i].v, context)}

\* C21: should_suppress returns true exactly when some pattern of the agent
\* has action ignore, confidence >= 0.7 and a condition all of whose keys are
\* in the alert context with equal values (extra context keys ignored); then
\* exactly one pattern, the first match, has its occurrences incremented by 1
\* and last_triggered set, and when it returns false no pattern is modified.
C21_SuppressIffPatternMatches ==
    (last # None /\ Op = "should_suppress_alert" /\ Returned) =>
        LET before == last[1].patterns_before
            hits == Matches(before, last[1].context)
            first == CHOOSE i \in hits : \A j \in hits : i <= j
        IN /\ last[1].ret <=> hits # {}
           /\ last[1].ret =>
                 patterns = [before EXCEPT
                               ![first].v.occurrences = @ + 1,
                               ![first].v.last_triggered = Some(Instant(now))]
           /\ ~last[1].ret => patterns = before

\* Two stored patterns suppress the alert, and the call returned true.
C21_Witness ==
    /\ last # None /\ Op = "should_suppress_alert" /\ Returned
    /\ last[1].ret
    /\ Cardinality(Matches(last[1].patterns_before, last[1].context)) = 2
    /\ Len(last[1].patterns_before) = 3

\* The occurrences of the pattern stored under key k in ps.
OccurrencesOf(ps, k) == DictGet(ps, k)[1].occurrences

\* C22: in every reachable store state each stored pattern has
\* 0 <= confidence <= 1 and occurrences >= 0, and for a given (agent, name)
\* key occurrences never decreases across any sequence of add_pattern,
\* trigger_pattern and record_feedback calls.
C22_PatternBoundsAndMonotoneOccurrences ==
    /\ [](\A i \in 1..Len(patterns) :
             /\ 0 <= patterns[i].v.confidence
             /\ patterns[i].v.confidence <= FullConfidence
             /\ patterns[i].v.occurrences >= 0)
    /\ [][(proc = "up" /\ proc' = "up") =>
             \A i \in 1..Len(patterns) :
                DictHas(patterns', patterns[i].k) =>
                   OccurrencesOf(patterns', patterns[i].k)
                     >= patterns[i].v.occurrences]_vars

(***************************************************************************)
(* The anomaly test of a baseline (SpecSeries).                            *)
(***************************************************************************)
\* The baseline the last anomaly test was made on.
Tested == DictGet(baselines, Key(last[1].agent, last[1].metric))[1]

\* |x - mean| as a multiple of 1 / mean's denominator.
Distance(b, x) == Abs(x * b.mean[2] - b.mean[1])

\* |x - mean| / std_dev compared with the sensitivity k / 2, on the squares:
\* 4 (x - mean)^2 against k^2 std_dev^2, in whole numbers.
DeviationsSquared(b, x) == 4 * Distance(b, x) * Distance(b, x) * b.std_dev[2]
SensitivitySquared(b, k) == k * k * b.std_dev[1] * b.mean[2] * b.mean[2]

\* Values around the samples of the series.
ProbeValues == 0..30

\* C23: for a baseline with std_dev = 0 a value is anomalous exactly when it
\* differs from the mean; otherwise it is anomalous exactly when
\* |x - mean| / std_dev is strictly greater than the sensitivity, so a value
\* at exactly `sensitivity` standard deviations is not anomalous and, at
\* fixed sensitivity, increasing |x - mean| never turns an anomalous verdict
\* into a non-anomalous one.
C23_AnomalyIsStrictlyBeyondSensitivity ==
    (/\ last # None /\ Op = "is_anomaly"
     /\ DictHas(baselines, Key(last[1].agent, last[1].metric))
     /\ Tested.sample_count >= MinSamples) =>
        LET b == Tested
            x == last[1].value
            k == last[1].sensitivity
        IN /\ b.std_dev[1] = 0 => (last[1].ret <=> Distance(b, x) # 0)
           /\ b.std_dev[1] # 0 =>
                 (last[1].ret <=> DeviationsSquared(b, x) > SensitivitySquared(b, k))
           /\ DeviationsSquared(b, x) = SensitivitySquared(b, k) /\ b.std_dev[1] # 0
                 => ~last[1].ret
           /\ last[1].ret =>
                 \A y \in ProbeValues :
                    Distance(b, y) >= Distance(b, x)
                       => Baseline_is_anomaly(b, y, k)

\* A value at exactly `sensitivity` standard deviations was tested.
C23_Witness ==
    /\ last # None /\ Op = "is_anomaly"
    /\ DictHas(baselines, Key(last[1].agent, last[1].metric))
    /\ Tested.sample_count >= MinSamples
    /\ Tested.std_dev[1] # 0
    /\ DeviationsSquared(Tested, last[1].value)
         = SensitivitySquared(Tested, last[1].sensitivity)
    /\ ~last[1].ret

(***************************************************************************)
(* Retention of observations (SpecRetention).                              *)
(***************************************************************************)
\* An observation as the history keeps it.
Call(o) == [agent |-> o.agent, metric |-> o.metric, value |-> o.value,
            t |-> o.timestamp.t]

\* The calls among cs made after day t.
Since(cs, t) == SelectSeq(cs, LAMBDA c : c.t > t)

Window ==
    LET cs == SelectSeq(Since(recorded, now - last[1].days),
                        LAMBDA c : /\ c.agent = last[1].agent
                                   /\ c.metric = last[1].metric
                                   /\ IsNumber(c.value))
    IN [j \in 1..Len(cs) |-> cs[j].value.n]

\* The sums of the two halves of vs, split at floor(n / 2).
FirstSum(vs) == SumOf(SubSeq(vs, 1, Len(vs) \div 2))
SecondSum(vs) == SumOf(SubSeq(vs, Len(vs) \div 2 + 1, Len(vs)))

\* mean2 - mean1 against a tenth of mean1 (of its size, for a mean below
\* zero), both times 10 * mid * (n - mid).
Rise(vs) ==
    10 * (SecondSum(vs) * (Len(vs) \div 2)
            - FirstSum(vs) * (Len(vs) - Len(vs) \div 2))
TenthOfFirst(vs) == Abs(FirstSum(vs)) * (Len(vs) - Len(vs) \div 2)

\* C25: get_trend(agent, metric, days) returns 'unknown' when fewer than two
\* numeric observations of the key lie within the last `days` days;
\* otherwise, with the values in ascending timestamp order split at
\* floor(n/2), it returns 'increasing' when the second-half mean exceeds the
\* first-half mean by more than 10% of the first-half mean, 'decreasing' when
\* it is lower by more than 10%, and 'stable' otherwise, with a first-half
\* mean of 0 always giving 'stable'.
C25_TrendBySplitMeans ==
    (last # None /\ Op = "get_trend") =>
        LET vs == Window
        IN last[1].ret =
             IF Len(vs) < 2 THEN "unknown"
             ELSE IF FirstSum(vs) = 0 THEN "stable"
             ELSE IF Rise(vs) > TenthOfFirst(vs) THEN "increasing"
             ELSE IF -Rise(vs) > TenthOfFirst(vs) THEN "decreasing"
             ELSE "stable"


\* The usage items of a list: the four usage messages, suppressed or not.
UsageItems(fs) ==
    SelectSeq(fs, LAMBDA f :
        f.message \in UsageMessages
                      \cup {SuppressedPrefix \o m : m \in UsageMessages})

\* More than 0.3 of the feedback on the alert type is false_positive.
MostlyFalse(fb, alert_type) ==
    LET on == {i \in 1..Len(fb) : fb[i].agent = LearnerName
                                    /\ fb[i].alert_type = alert_type}
        fp == {i \in on : fb[i].feedback = "false_positive"}
    IN 10 * Cardinality(fp) > 3 * Cardinality(on)

\* The priority the thresholds give a usage.
PriorityByThresholds(pct, fb) ==
    LET high == IF MostlyFalse(fb, "storage_high") THEN 92 ELSE 90
        warning == IF MostlyFalse(fb, "storage_warning") THEN 85 ELSE 80
    IN IF pct >= 95 THEN CRITICAL
       ELSE IF pct >= high THEN HIGH
       ELSE IF pct >= warning THEN MEDIUM
       ELSE LOW

\* A check that found a volume of non-zero size.
CheckedVolume ==
    /\ last # None
    /\ Op = "check"
    /\ last[1].api = None
    /\ last[1].volume.total # 0

\* The context the usage alert of the checked volume is raised with.
UsageContext ==
    {<<"volume", last[1].volume.name>>,
     <<"usage_percent", PercentText(last[1].volume.used)>>}

UsageAlertOf(priority) ==
    IF priority = CRITICAL THEN "storage_critical"
    ELSE IF priority = HIGH THEN "storage_high"
    ELSE IF priority = MEDIUM THEN "storage_warning"
    ELSE "none"

\* C27: a suppression pattern learned from false_positive feedback on alert
\* type T suppresses only alerts of type T: when all the feedback given was
\* on one alert type, a usage alert of another type of the same agent
\* (critical ones included) is never downgraded to info.
C27_SuppressionOnlyOfItsType ==
    CheckedVolume =>
        LET fb == last[1].feedback_before
            given == {fb[i].alert_type : i \in 1..Len(fb)}
            raised == UsageAlertOf(PriorityByThresholds(last[1].volume.used, fb))
            usage == UsageItems(last[1].returned)
        IN (Cardinality(given) = 1 /\ raised \notin given) =>
              \A i \in 1..Len(usage) : usage[i].priority # INFO


\* The items the agents handed to the orchestrator in this health check,
\* and the info items among them.
HandedOver ==
    UNION {{<<n, i>> : i \in DOMAIN results[n].feedback} : n \in 1..Len(results)}

InfoResults == {x \in HandedOver : results[x[1]].feedback[x[2]].priority = INFO}

\* C28: the list check_health returns never contains an info-priority item,
\* for either value of show_info (which only affects the rendering); so
\* every suppressed alert, being info, is absent from the returned list and
\* from the report rendered from it.
C28_HealthCheckReturnsNoInfo ==
    phase = "reported" =>
        /\ \A i \in 1..Len(report) : report[i].priority # INFO
        /\ \A show_info \in BOOLEAN :
              LET printed == render_report(report, show_info)
              IN /\ \A i \in 1..Len(printed) : printed[i].priority # INFO
                 /\ Len(printed) = Len(report)
        /\ \A x \in HandedOver \ InfoResults :
              \E i \in 1..Len(report) : report[i] = results[x[1]].feedback[x[2]]

\* A health check is reported in which an agent handed over an info item
\* beside a high one.
C28_Witness ==
    /\ phase = "reported"
    /\ InfoResults # {}
    /\ report # <<>>


\* C29: across repeated health checks on the same agent objects, feedback
\* emitted during one run never appears in the result of a later run: at the
\* start of every run() the agent's feedback buffer is empty, also after a
\* run in which check() raised after emitting some feedback.
C29_BufferEmptyAtRunStart ==
    /\ \A i \in AgentIds : pc[i] = "ready" => feedback_buf[i] = <<>>
    /\ (last # None /\ agents[Done] = FakeName) => last[1].before = <<>>


\* C30: for every baseline and every recorded feedback history the thresholds
\* an agent computes after learning stay ordered: storage warning <= high <=
\* critical, security failed-login warning <= critical, backup warning_days
\* <= critical_days, updates warning_days <= critical_days, and disk low <
\* warning <= critical.
C30_ThresholdsStayOrdered ==
    (last # None /\ Op = "get_adjusted_thresholds") =>
        LET t == last[1].ret
        IN CASE last[1].agent = "storage" ->
                  t.warning <= t.high /\ t.high <= t.critical
             [] last[1].agent = "security" -> t.warning <= t.critical
             [] last[1].agent = "backup" -> t.warning_days <= t.critical_days
             [] last[1].agent = "updates" -> t.warning_days <= t.critical_days
             [] last[1].agent = "disks" ->
                  t.low < t.warning /\ t.warning <= t.critical

====
